---------------------------- MODULE Spec2Model ----------------------------
(***************************************************************************)
(* A model of utils/quality_checks.py (quality_report and its helpers).   *)
(*                                                                         *)
(* A text is a sequence of Unicode code points (natural numbers); a word  *)
(* is a sequence of code points too.  The character universe of the model *)
(* is ASCII together with the Arabic block U+0600..U+06FF; the regular    *)
(* expression classes below are Python's classes restricted to it.        *)
(* Python floats are modelled as exact rationals [n, d] with d > 0.       *)
(***************************************************************************)
EXTENDS Integers, Sequences, FiniteSets, TLC

(***************************************************************************)
(* Characters.                                                             *)
(***************************************************************************)
SP == 32
NL == 10
DOT == 46
BANG == 33
HASH == 35
ARQ == 1567

InRange(c, lo, hi) == lo <= c /\ c <= hi

\* \s of the re module
IsSpace(c) == InRange(c, 9, 13) \/ InRange(c, 28, 32)

\* [A-Za-z0-9\u0600-\u06FF] of _words
IsTokenChar(c) ==
    \/ InRange(c, 48, 57) \/ InRange(c, 65, 90) \/ InRange(c, 97, 122)
    \/ InRange(c, 1536, 1791)

\* \w of the re module (str patterns): alphanumerics and the underscore
IsWordChar(c) ==
    \/ InRange(c, 48, 57) \/ InRange(c, 65, 90) \/ c = 95 \/ InRange(c, 97, 122)
    \/ InRange(c, 1568, 1610) \/ InRange(c, 1632, 1641) \/ InRange(c, 1646, 1647)
    \/ InRange(c, 1649, 1747) \/ c = 1749 \/ InRange(c, 1765, 1766)
    \/ InRange(c, 1774, 1788) \/ c = 1791

\* [\.\!\u061F\!] of _split_sentences
IsTerminator(c) == c = DOT \/ c = BANG \/ c = ARQ

\* str.lower() on one character
LowerChar(c) == IF InRange(c, 65, 90) THEN c + 32 ELSE c

Lower(w) == [i \in 1..Len(w) |-> LowerChar(w[i])]

(***************************************************************************)
(* Exact rationals standing for the floats of the code.                    *)
(***************************************************************************)
RECURSIVE Gcd(_, _)
Gcd(a, b) == IF b = 0 THEN a ELSE Gcd(b, a % b)

Abs(x) == IF x < 0 THEN -x ELSE x

\* n / d for d # 0, in lowest terms with a positive denominator
Q(n, d) ==
    LET g == Gcd(Abs(n), Abs(d))
        s == IF d < 0 THEN -1 ELSE 1
    IN  [n |-> (s * n) \div g, d |-> (s * d) \div g]

QInt(i) == [n |-> i, d |-> 1]
QAdd(a, b) == Q(a.n * b.d + b.n * a.d, a.d * b.d)
QSub(a, b) == Q(a.n * b.d - b.n * a.d, a.d * b.d)
QMul(a, b) == Q(a.n * b.n, a.d * b.d)
QLe(a, b) == a.n * b.d <= b.n * a.d
QLt(a, b) == a.n * b.d < b.n * a.d
QMin(a, b) == IF QLe(a, b) THEN a ELSE b
QMax(a, b) == IF QLe(a, b) THEN b ELSE a

RECURSIVE Pow10(_)
Pow10(k) == IF k = 0 THEN 1 ELSE 10 * Pow10(k - 1)

\* round(x, k) for x >= 0: to the nearest multiple of 10^-k, ties to even
Round(x, k) ==
    LET sc == Pow10(k)
        num == x.n * sc
        fl == num \div x.d
        rem == num % x.d
        up == \/ 2 * rem > x.d
              \/ (2 * rem = x.d /\ fl % 2 = 1)
    IN  Q(IF up THEN fl + 1 ELSE fl, sc)

\* round(x ** 0.5, 1) for x >= 0: k / 10 for the k with
\* (2k - 1)^2 <= 400 x < (2k + 1)^2
RoundSqrt1(x) ==
    Q(CHOOSE k \in 0..(10 * (x.n \div x.d + 1) + 1) :
        /\ 400 * x.n < (2 * k + 1) * (2 * k + 1) * x.d
        /\ (k = 0 \/ (2 * k - 1) * (2 * k - 1) * x.d <= 400 * x.n),
      10)

(***************************************************************************)
(* Sequence helpers.                                                       *)
(***************************************************************************)
Range(s) == {s[i] : i \in 1..Len(s)}

RECURSIVE SumSeq(_)
SumSeq(s) == IF s = <<>> THEN 0 ELSE Head(s) + SumSeq(Tail(s))

\* s[a:b] of Python (0-based, end exclusive) for 0 <= a, b <= len(s)
Slice(s, a, b) == SubSeq(s, a + 1, b)

Max2(a, b) == IF a >= b THEN a ELSE b
Min2(a, b) == IF a <= b THEN a ELSE b

Indices(s) == [i \in 1..Len(s) |-> i]

\* the first index after position pos (0-based) whose character is not in
\* the class P, or Len(s) + 1
FirstOutside(s, pos, P(_)) ==
    CHOOSE b \in (pos + 1)..(Len(s) + 1) :
        /\ (b = Len(s) + 1 \/ ~P(s[b]))
        /\ \A j \in (pos + 1)..(b - 1) : P(s[j])

\* the maximal runs of the positions i with keep[i], as subsequences of s,
\* from left to right
RunsOf(s, keep) ==
    LET mask == SubSeq(keep, 1, Len(s))
        starts == SelectSeq(Indices(s),
                    LAMBDA i : mask[i] /\ (i = 1 \/ ~mask[i - 1]))
        EndOf(i) == CHOOSE e \in i..Len(s) :
                        /\ (e = Len(s) \/ ~mask[e + 1])
                        /\ \A j \in i..e : mask[j]
    IN  [k \in 1..Len(starts) |-> SubSeq(s, starts[k], EndOf(starts[k]))]

(***************************************************************************)
(* _normalize, _split_sentences, _split_paragraphs, _words                 *)
(***************************************************************************)
\* str.strip()
Strip(s) ==
    LET n == Len(s)
        first == FirstOutside(s, 0, IsSpace)
    IN  IF first > n THEN <<>>
        ELSE SubSeq(s, first,
                    CHOOSE e \in first..n :
                        ~IsSpace(s[e]) /\ \A j \in (e + 1)..n : IsSpace(s[j]))

\* re.sub(r"\s+", " ", s): every maximal run of whitespace becomes one space
CollapseSpaces(s) ==
    LET kept == SelectSeq(Indices(s),
                    LAMBDA i : ~IsSpace(s[i]) \/ i = 1 \/ ~IsSpace(s[i - 1]))
    IN  SubSeq([k \in 1..Len(kept) |-> IF IsSpace(s[kept[k]]) THEN SP ELSE s[kept[k]]],
               1, Len(kept))

Normalize(s) == CollapseSpaces(Strip(s))

\* first position of the maximal whitespace run that holds position i
SpaceRunStart(s, i) ==
    LET back == CHOOSE k \in 0..(i - 1) :
                    /\ (k = i - 1 \/ ~IsSpace(s[i - k - 1]))
                    /\ \A j \in (i - k)..i : IsSpace(s[j])
    IN  i - back

\* Position i lies in a match of r"(?<=[\.\!\u061F\!])\s+|\n+" found by
\* re.split: a run of whitespace that follows a terminator is one match, and
\* elsewhere every run of newlines is one.
InSentenceBreak(s, i) ==
    \/ s[i] = NL
    \/ /\ IsSpace(s[i])
       /\ SpaceRunStart(s, i) > 1
       /\ IsTerminator(s[SpaceRunStart(s, i) - 1])

\* the filter with pieces of one character dropped as well
StripLongPieces(parts) ==
    LET stripped == [i \in 1..Len(parts) |-> Strip(parts[i])]
    IN  SelectSeq(stripped, LAMBDA p : Len(p) > 1)

\* [p.strip() for p in parts if p.strip()]
StripNonEmpty(parts) ==
    LET stripped == [i \in 1..Len(parts) |-> Strip(parts[i])]
    IN  SelectSeq(stripped, LAMBDA p : p # <<>>)

\* _split_sentences; the empty pieces re.split returns are dropped by the
\* filter, so the pieces kept are the runs between the matches
SplitSentences(txt) ==
    LET s == Normalize(txt)
    IN  StripNonEmpty(RunsOf(s, [i \in 1..Len(s) |-> ~InSentenceBreak(s, i)]))

\* Position i lies in a match of r"\n\s*\n" found by re.split: from the first
\* to the last newline of a whitespace run that holds two newlines or more.
InParagraphBreak(s, i) ==
    /\ IsSpace(s[i])
    /\ LET a == SpaceRunStart(s, i)
           b == FirstOutside(s, i - 1, IsSpace) - 1
           nls == {j \in a..b : s[j] = NL}
       IN  /\ Cardinality(nls) >= 2
           /\ \E j \in nls : j <= i
           /\ \E j \in nls : j >= i

\* _split_paragraphs
SplitParagraphs(txt) ==
    StripNonEmpty(RunsOf(txt, [i \in 1..Len(txt) |-> ~InParagraphBreak(txt, i)]))

\* _words: re.findall(r"[A-Za-z0-9\u0600-\u06FF]+", _normalize(text)), the
\* maximal runs of token characters
Words(txt) ==
    LET s == Normalize(txt)
    IN  RunsOf(s, [i \in 1..Len(s) |-> IsTokenChar(s[i])])

(***************************************************************************)
(* The part of the re module the program uses.  A pattern is a sequence   *)
(* of elements; a position is the number of characters before it.          *)
(***************************************************************************)
Lit(s) == [k |-> "lit", s |-> s]
\* a greedy repetition of a character class, lo or more times
Rep(c, lo) == [k |-> "rep", c |-> c, lo |-> lo]
One(c) == [k |-> "one", c |-> c]
WordBoundary == [k |-> "wb"]
\* ^ under re.M
LineStart == [k |-> "bol"]
Alt(alts) == [k |-> "alt", alts |-> alts]

InClass(c, ch) ==
    CASE c = "space" -> IsSpace(ch)
      [] c = "word" -> IsWordChar(ch)
      [] c = "any" -> ch # NL

\* number of characters of class c that follow position pos
ClassRun(c, s, pos) ==
    LET P(ch) == InClass(c, ch) IN FirstOutside(s, pos, P) - 1 - pos

\* ic: re.IGNORECASE
LitAt(s, pos, l, ic) ==
    /\ pos + Len(l) <= Len(s)
    /\ \A i \in 1..Len(l) :
          IF ic THEN LowerChar(s[pos + i]) = LowerChar(l[i]) ELSE s[pos + i] = l[i]

AtWordBoundary(s, pos) ==
    LET before == pos >= 1 /\ IsWordChar(s[pos])
        after == pos < Len(s) /\ IsWordChar(s[pos + 1])
    IN  before # after

\* The end of the match of pattern p that starts at pos, or -1: the first
\* match in the order a backtracking matcher tries them (a repetition takes
\* the longest run first, an alternation its branches from left to right).
RECURSIVE MatchEnd(_, _, _, _)
RECURSIVE MatchLongest(_, _, _, _, _, _)
RECURSIVE MatchAlt(_, _, _, _, _)
MatchEnd(p, s, pos, ic) ==
    IF p = <<>> THEN pos
    ELSE LET e == Head(p)
             rest == Tail(p)
         IN  CASE e.k = "lit" ->
                    IF LitAt(s, pos, e.s, ic)
                    THEN MatchEnd(rest, s, pos + Len(e.s), ic) ELSE -1
               [] e.k = "one" ->
                    IF pos < Len(s) /\ InClass(e.c, s[pos + 1])
                    THEN MatchEnd(rest, s, pos + 1, ic) ELSE -1
               [] e.k = "rep" ->
                    MatchLongest(rest, s, pos, ClassRun(e.c, s, pos), e.lo, ic)
               [] e.k = "wb" ->
                    IF AtWordBoundary(s, pos) THEN MatchEnd(rest, s, pos, ic) ELSE -1
               [] e.k = "bol" ->
                    IF pos = 0 \/ s[pos] = NL THEN MatchEnd(rest, s, pos, ic) ELSE -1
               [] e.k = "alt" -> MatchAlt(e.alts, rest, s, pos, ic)

\* the rest of the pattern after the longest run of lo..k characters that
\* lets it match
MatchLongest(rest, s, pos, k, lo, ic) ==
    LET ok == {n \in lo..k : MatchEnd(rest, s, pos + n, ic) # -1}
    IN  IF ok = {} THEN -1
        ELSE MatchEnd(rest, s, pos + (CHOOSE n \in ok : \A m \in ok : m <= n), ic)

MatchAlt(alts, rest, s, pos, ic) ==
    IF alts = <<>> THEN -1
    ELSE LET r == MatchEnd(Head(alts) \o rest, s, pos, ic)
         IN  IF r # -1 THEN r ELSE MatchAlt(Tail(alts), rest, s, pos, ic)

\* re.search(p, s) is not None
Search(p, s, ic) == \E pos \in 0..Len(s) : MatchEnd(p, s, pos, ic) # -1

\* the spans <<start, end>> of re.finditer(p, s) from position pos on:
\* leftmost first, each search resuming at the end of the match before
RECURSIVE FindIterFrom(_, _, _, _)
FindIterFrom(p, s, pos, ic) ==
    LET at == {a \in pos..Len(s) : MatchEnd(p, s, a, ic) # -1}
    IN  IF at = {} THEN <<>>
        ELSE LET a == CHOOSE x \in at : \A y \in at : x <= y
                 e == MatchEnd(p, s, a, ic)
             IN  <<(<<a, e>>)>> \o FindIterFrom(p, s, IF e = a THEN a + 1 ELSE e, ic)

\* re.search in the place of re.finditer: the first match only
FindFirstOnly(p, s, ic) ==
    LET all == FindIterFrom(p, s, 0, ic) IN SubSeq(all, 1, Min2(1, Len(all)))

FindIter(p, s, ic) == FindIterFrom(p, s, 0, ic)

(***************************************************************************)
(* The module-level tables of quality_checks.py.                           *)
(***************************************************************************)
AR_STOPWORDS ==
  {
    <<1571, 1605>>, <<1571, 1605, 1575, 1605>>, <<1571, 1606>>,
    <<1571, 1606, 1617>>, <<1571, 1606, 1617, 1614>>, <<1571, 1608>>,
    <<1573, 1584>>, <<1573, 1584, 1575>>, <<1573, 1584, 1606>>,
    <<1573, 1584, 1611, 1575>>, <<1573, 1584, 1618>>, <<1573, 1604, 1575>>,
    <<1573, 1604, 1609>>, <<1573, 1606>>, <<1573, 1606, 1605, 1575>>,
    <<1573, 1606, 1617, 1614>>, <<1575, 1604, 1578, 1610>>,
    <<1575, 1604, 1584, 1610>>, <<1575, 1604, 1584, 1610, 1606>>,
    <<1576, 1593, 1583>>, <<1576, 1604>>, <<1576, 1605, 1575>>,
    <<1576, 1610, 1606>>, <<1576, 1610, 1606, 1605, 1575>>,
    <<1578, 1602, 1585, 1610, 1576, 1611, 1575>>, <<1578, 1603, 1608, 1606>>,
    <<1578, 1604, 1603>>, <<1579, 1605>>, <<1580, 1583, 1575>>,
    <<1581, 1578, 1609>>, <<1581, 1587, 1576>>, <<1581, 1610, 1579>>,
    <<1581, 1610, 1606>>, <<1582, 1604, 1575, 1604>>, <<1583, 1608, 1606>>,
    <<1584, 1604, 1603>>, <<1585, 1576, 1605, 1575>>, <<1587, 1608, 1609>>,
    <<1590, 1583>>, <<1590, 1605, 1606>>, <<1591, 1608, 1575, 1604>>,
    <<1593, 1576, 1585>>, <<1593, 1604, 1609>>, <<1593, 1606>>,
    <<1593, 1606, 1583>>, <<1593, 1606, 1583, 1605, 1575>>,
    <<1594, 1575, 1604, 1576, 1611, 1575>>, <<1594, 1610, 1585>>,
    <<1601, 1602, 1591>>, <<1601, 1610>>, <<1602, 1576, 1604>>,
    <<1602, 1583>>, <<1602, 1583, 1617>>, <<1603, 1575, 1606>>,
    <<1603, 1584, 1604, 1603>>, <<1603, 1605, 1575>>, <<1603, 1610>>,
    <<1604, 1571, 1606>>, <<1604, 1575>>, <<1604, 1583, 1609>>,
    <<1604, 1603, 1606>>, <<1604, 1603, 1610>>, <<1604, 1605>>,
    <<1604, 1606>>, <<1604, 1610, 1587>>, <<1604, 1610, 1587, 1608, 1575>>,
    <<1605, 1575>>, <<1605, 1579, 1604>>, <<1605, 1579, 1604, 1605, 1575>>,
    <<1605, 1593>>, <<1605, 1606>>, <<1605, 1606, 1584>>,
    <<1606, 1581, 1608>>, <<1606, 1608, 1593, 1611, 1575>>,
    <<1607, 1584, 1575>>, <<1607, 1584, 1607>>, <<1607, 1604>>,
    <<1607, 1606, 1575>>, <<1607, 1606, 1575, 1603>>,
    <<1608, 1585, 1575, 1569>>, <<1610, 1603, 1608, 1606>>
  }

SENSORY_TERMS ==
  {
    <<1576, 1575, 1585, 1583>>, <<1581, 1575, 1585>>,
    <<1581, 1575, 1605, 1590>>, <<1581, 1604, 1608>>, <<1582, 1588, 1606>>,
    <<1582, 1601, 1610, 1601>>, <<1583, 1587, 1605>>,
    <<1585, 1575, 1574, 1581, 1577>>, <<1586, 1576, 1583, 1577>>,
    <<1586, 1576, 1583, 1610>>, <<1587, 1575, 1574, 1604>>,
    <<1587, 1582, 1606>>, <<1589, 1604, 1576>>, <<1591, 1575, 1586, 1580>>,
    <<1591, 1585, 1575, 1608, 1577>>, <<1591, 1585, 1610>>,
    <<1591, 1586, 1575, 1580, 1577>>, <<1593, 1576, 1602>>,
    <<1593, 1591, 1585>>, <<1593, 1591, 1585, 1610>>, <<1594, 1606, 1610>>,
    <<1602, 1608, 1575, 1605>>, <<1603, 1579, 1610, 1601>>,
    <<1603, 1585, 1610, 1605, 1610>>, <<1605, 1575, 1604, 1581>>,
    <<1605, 1578, 1605, 1575, 1587, 1603>>,
    <<1605, 1578, 1608, 1575, 1586, 1606>>, <<1605, 1581, 1605, 1617, 1585>>,
    <<1605, 1583, 1582, 1606>>, <<1605, 1588, 1608, 1610>>,
    <<1605, 1591, 1576, 1608, 1582>>, <<1605, 1591, 1607, 1617, 1610>>,
    <<1605, 1602, 1585, 1605, 1588>>, <<1606, 1575, 1593, 1605>>,
    <<1606, 1603, 1607, 1577>>
  }

POSITIVE_TERMS ==
  {
    <<1580, 1605, 1610, 1604>>, <<1585, 1575, 1574, 1593>>,
    <<1587, 1585, 1610, 1593>>, <<1587, 1604, 1587>>, <<1591, 1610, 1576>>,
    <<1601, 1582, 1605>>, <<1604, 1584, 1610, 1584>>,
    <<1604, 1591, 1610, 1601>>, <<1605, 1578, 1602, 1606>>,
    <<1605, 1578, 1608, 1575, 1586, 1606>>, <<1605, 1579, 1575, 1604, 1610>>,
    <<1605, 1581, 1578, 1585, 1601>>, <<1605, 1583, 1607, 1588>>,
    <<1605, 1585, 1610, 1581>>, <<1605, 1605, 1578, 1575, 1586>>,
    <<1605, 1605, 1610, 1586>>, <<1606, 1592, 1610, 1601>>,
    <<1607, 1575, 1583, 1574>>, <<1608, 1583, 1608, 1583>>
  }

NEGATIVE_TERMS ==
  {
    <<1575, 1604, 1587, 1593, 1585>>, <<1576, 1575, 1585, 1583>>,
    <<1576, 1591, 1610, 1569>>, <<1576, 1604, 1575>>,
    <<1579, 1602, 1610, 1604>>, <<1580, 1575, 1601>>,
    <<1580, 1583, 1611, 1575>>, <<1581, 1575, 1605, 1590>>,
    <<1583, 1587, 1605>>, <<1586, 1610, 1578, 1610>>, <<1587, 1610, 1574>>,
    <<1590, 1593, 1610, 1601>>, <<1591, 1593, 1605>>, <<1594, 1610, 1585>>,
    <<1601, 1608, 1590, 1608, 1610>>, <<1601, 1610, 1607>>,
    <<1602, 1575, 1587, 1613>>, <<1605, 1575, 1604, 1581>>,
    <<1605, 1576, 1575, 1604, 1594>>, <<1605, 1578, 1571, 1582, 1585>>,
    <<1605, 1578, 1608, 1575, 1586, 1606>>, <<1605, 1585, 1578, 1601, 1593>>,
    <<1605, 1585, 1617>>, <<1605, 1586, 1583, 1581, 1605>>,
    <<1605, 1586, 1593, 1580>>, <<1605, 1587, 1578, 1608, 1610>>,
    <<1606, 1575, 1602, 1589>>, <<1606, 1603, 1607, 1577, 1613>>,
    <<1606, 1614, 1603, 1607, 1577>>
  }

ABSOLUTE_WORDS ==
  {
    <<49>>, <<1571, 1576, 1583, 1611, 1575>>,
    <<1575, 1604, 1571, 1601, 1590, 1604>>, <<1576, 1604, 1575>>,
    <<1580, 1605, 1610, 1593>>, <<1581, 1578, 1605, 1611, 1575>>,
    <<1583, 1575, 1574, 1605, 1611, 1575>>, <<1585, 1602, 1605>>,
    <<1588, 1603>>, <<1603, 1604, 1617>>, <<1604, 1575>>,
    <<1605, 1572, 1603, 1583>>, <<1605, 1606, 1575, 1601, 1587>>,
    <<1610, 1602, 1575, 1585, 1606>>, <<1610, 1615, 1607, 1586, 1605>>
  }

\* the templates r"..." of BOILERPLATE_PATTERNS, in the order of the list
BOILERPLATE_PATTERNS ==
  <<
    <<Lit(<<1605, 1606>>), Rep("space", 1), Lit(<<1571, 1580, 1605, 1604>>),
      Rep("space", 1), Rep("any", 0),
      Lit(<<1605, 1591, 1575, 1593, 1605>>)>>,
    <<Lit(<<1604, 1575>>), Rep("space", 1), Lit(<<1578, 1601, 1608, 1578>>),
      Rep("space", 1), Rep("any", 0),
      Lit(<<1578, 1580, 1585, 1576, 1577>>)>>,
    <<Lit(<<1610, 1602, 1583, 1605>>), Rep("space", 1), Rep("any", 0),
      Lit(<<1602, 1575, 1574, 1605, 1577>>), Rep("space", 1),
      Lit(<<1605, 1578, 1606, 1608, 1593, 1577>>), Rep("space", 1),
      Rep("any", 0)>>,
    <<Lit(<<1575, 1604, 1582, 1610, 1575, 1585>>), Rep("space", 1),
      Lit(<<1575, 1604, 1571, 1601, 1590, 1604>>), Rep("space", 1),
      Rep("any", 0)>>,
    <<Lit(<<1610, 1593, 1578, 1576, 1585>>), Rep("space", 1), Rep("any", 0),
      Lit(<<1605, 1606>>), Rep("space", 1), Lit(<<1571, 1601, 1590, 1604>>),
      Rep("space", 1),
      Lit(<<1575, 1604, 1582, 1610, 1575, 1585, 1575, 1578>>)>>,
    <<Lit(<<1610, 1578, 1605, 1610, 1586>>), Rep("space", 1), Rep("any", 0),
      Lit(<<1576, 1575, 1604, 1580, 1608, 1583, 1577>>), Rep("space", 1),
      Lit(<<1575, 1604, 1593, 1575, 1604, 1610, 1577>>)>>,
    <<Lit(<<1571, 1587, 1593, 1575, 1585>>), Rep("space", 1),
      Lit(<<1605, 1606, 1575, 1587, 1576, 1577>>), Rep("space", 1),
      Rep("any", 0), Lit(<<1604, 1580, 1605, 1610, 1593>>)>>
  >>

\* r'\bTM\s+\w+' (TM: teh, meem)
PASSIVE_RE ==
    <<WordBoundary, Lit(<<1578, 1605>>), Rep("space", 1), Rep("word", 1)>>

\* r'(?m)^\s*##\s+'
H2_RE ==
    <<LineStart, Rep("space", 0), Lit(<<35, 35>>), Rep("space", 1)>>

\* r'(?m)^\s*###\s+'
H3_RE ==
    <<LineStart, Rep("space", 0), Lit(<<35, 35, 35>>), Rep("space", 1)>>

\* r'(?im)^\s*##\s*<as'ila>\s+<sha'i`a>|FAQ'
FAQ_RE ==
    <<Alt(<<<<LineStart, Rep("space", 0), Lit(<<35, 35>>), Rep("space", 0),
      Lit(<<1571, 1587, 1574, 1604, 1577>>), Rep("space", 1),
      Lit(<<1588, 1575, 1574, 1593, 1577>>)>>, <<Lit(<<70, 65, 81>>)>>>>)>>

\* the pattern of eeat_signals["experience"]: \b(w1|w2|...)\b
EXPERIENCE_RE ==
    <<WordBoundary, Alt(<<<<Lit(<<1580, 1585, 1617, 1576, 1578>>)>>,
      <<Lit(<<1586, 1585, 1606, 1575>>)>>,
      <<Lit(<<1578, 1584, 1608, 1617, 1602, 1606, 1575>>)>>,
      <<Lit(<<1586, 1610, 1575, 1585, 1577>>)>>,
      <<Lit(<<1578, 1580, 1585, 1576, 1578>>)>>,
      <<Lit(<<1605, 1606, 32, 1608, 1575, 1602, 1593, 32, 1575, 1604, 1582, 1576, 1585, 1577>>)>>>>),
      WordBoundary>>

\* the pattern of eeat_signals["expertise"]: \b(w1|w2|...)\b
EXPERTISE_RE ==
    <<WordBoundary, Alt(<<<<Lit(<<1578, 1602, 1606, 1610, 1577>>)>>,
      <<Lit(<<1578, 1581, 1605, 1610, 1589>>)>>,
      <<Lit(<<1578, 1578, 1576, 1610, 1604>>)>>,
      <<Lit(<<1583, 1585, 1580, 1575, 1578, 32, 1575, 1604, 1578, 1587, 1608, 1610, 1577>>)>>,
      <<Lit(<<1605, 1593, 1610, 1575, 1585>>)>>,
      <<Lit(<<1605, 1606, 1607, 1580, 1610, 1577>>)>>,
      <<Lit(<<1602, 1585, 1610, 1606, 1577>>)>>>>), WordBoundary>>

\* the pattern of eeat_signals["author"]: \b(w1|w2|...)\b
AUTHOR_RE ==
    <<WordBoundary, Alt(<<<<Lit(<<1603, 1575, 1578, 1576>>)>>,
      <<Lit(<<1605, 1581, 1585, 1585>>)>>,
      <<Lit(<<1601, 1585, 1610, 1602, 32, 1575, 1604, 1578, 1581, 1585, 1610, 1585>>)>>,
      <<Lit(<<1578, 1608, 1602, 1610, 1593>>)>>,
      <<Lit(<<1605, 1606, 1607, 1580, 1610, 1577, 32, 1575, 1604, 1578, 1581, 1585, 1610, 1585>>)>>>>),
      WordBoundary>>

\* the pattern of eeat_signals["trust"]: \b(w1|w2|...)\b
TRUST_RE ==
    <<WordBoundary, Alt(<<<<Lit(<<1588, 1601, 1575, 1601, 1610, 1577>>)>>,
      <<Lit(<<1605, 1589, 1583, 1585>>)>>,
      <<Lit(<<1573, 1601, 1589, 1575, 1581>>)>>,
      <<Lit(<<1581, 1583, 1608, 1583, 32, 1575, 1604, 1605, 1606, 1607, 1580, 1610, 1577>>)>>,
      <<Lit(<<1575, 1593, 1578, 1605, 1583, 1606, 1575>>)>>>>),
      WordBoundary>>

\* the pattern of information-gain indicator 1 (searched with re.I)
TIP_RE ==
    <<Alt(<<<<Lit(<<80, 114, 111, 32, 84, 105, 112>>)>>,
      <<Lit(<<1606, 1589, 1610, 1581, 1577>>)>>,
      <<Lit(<<1578, 1604, 1605, 1610, 1581>>)>>,
      <<Lit(<<1605, 1604, 1575, 1581, 1592, 1577, 32, 1593, 1605, 1604, 1610, 1577>>)>>>>)>>

\* the pattern of information-gain indicator 2
COMPARISON_RE ==
    <<Alt(<<<<Lit(<<1605, 1602, 1575, 1585, 1606, 1577>>)>>,
      <<Lit(<<1571, 1602, 1585, 1576>>), Rep("space", 1),
      Lit(<<1573, 1604, 1609>>)>>, <<Lit(<<1610, 1588, 1576, 1607>>)>>,
      <<Lit(<<1610, 1601, 1608, 1602>>)>>,
      <<Lit(<<1571, 1602, 1604>>)>>>>)>>

\* the pattern of information-gain indicator 3
CRITICISM_RE ==
    <<Alt(<<<<Lit(<<1587, 1604, 1576, 1610, 1577>>), Rep("space", 1),
      Lit(<<1589, 1594, 1610, 1585, 1577>>)>>,
      <<Lit(<<1606, 1602, 1591, 1577>>), Rep("space", 1),
      Lit(<<1604, 1616, 1604, 1578, 1581, 1587, 1610, 1606>>)>>,
      <<Lit(<<1610, 1605, 1603, 1606>>), Rep("space", 1),
      Lit(<<1578, 1581, 1587, 1610, 1606>>)>>,
      <<Lit(<<1605, 1604, 1575, 1581, 1592, 1577>>), Rep("space", 1),
      Lit(<<1587, 1604, 1576, 1610, 1577>>)>>>>)>>

\* the pattern of information-gain indicator 4
PLACE_RE ==
    <<Alt(<<<<Lit(<<1588, 1605, 1575, 1604>>)>>,
      <<Lit(<<1580, 1606, 1608, 1576>>)>>, <<Lit(<<1588, 1585, 1602>>)>>,
      <<Lit(<<1594, 1585, 1576>>)>>,
      <<Lit(<<1603, 1608, 1585, 1606, 1610, 1588>>)>>,
      <<Lit(<<1605, 1608, 1604>>)>>, <<Lit(<<1605, 1605, 1588, 1609>>)>>,
      <<Lit(<<1581, 1610>>)>>>>), One("space")>>

\* the pattern of information-gain indicator 5
PRIOR_VISIT_RE ==
    <<Lit(<<1578, 1580, 1585, 1576, 1577>>), Rep("space", 1), Rep("any", 0),
      Alt(<<<<Lit(<<1587, 1575, 1576, 1602, 1577>>)>>,
      <<Lit(<<1571, 1582, 1585, 1609>>)>>>>)>>

\* the module-level names quality_report reads
InitialTables ==
    [AR_STOPWORDS |-> AR_STOPWORDS, SENSORY_TERMS |-> SENSORY_TERMS,
     POSITIVE_TERMS |-> POSITIVE_TERMS, NEGATIVE_TERMS |-> NEGATIVE_TERMS,
     ABSOLUTE_WORDS |-> ABSOLUTE_WORDS,
     BOILERPLATE_PATTERNS |-> BOILERPLATE_PATTERNS]

(***************************************************************************)
(* collections.Counter and sorted()                                        *)
(***************************************************************************)
\* the distinct items, in order of first occurrence
FirstSeen(items) ==
    LET firsts == SelectSeq(Indices(items),
                    LAMBDA i : \A j \in 1..(i - 1) : items[j] # items[i])
    IN  [k \in 1..Len(firsts) |-> items[firsts[k]]]

\* Counter(items).items(): <<key, count>> pairs in order of first occurrence
Counter(items) ==
    LET keys == FirstSeen(items)
    IN  [k \in 1..Len(keys) |->
            <<keys[k], Cardinality({i \in 1..Len(items) : items[i] = keys[k]})>>]

\* sorted(rs, key=lambda r: (-r.k1, -r.k2)): stable, so records with equal
\* keys keep their order
SortDesc(rs) ==
    LET Before(a, b) == a.k1 > b.k1 \/ (a.k1 = b.k1 /\ a.k2 > b.k2)
        n == Len(rs)
        rank == [i \in 1..n |->
                    Cardinality({j \in 1..n :
                        Before(rs[j], rs[i]) \/ (j < i /\ ~Before(rs[i], rs[j]))})]
    IN  [r \in 1..n |-> rs[CHOOSE i \in 1..n : rank[i] = r - 1]]

Take(s, n) == SubSeq(s, 1, Min2(n, Len(s)))

\* Counter.most_common(n): by count, descending; ties in order of first occurrence
MostCommon(counter, n) ==
    LET keyed == [i \in 1..Len(counter) |->
                    [item |-> counter[i], k1 |-> counter[i][2], k2 |-> 0]]
        sorted == SortDesc(keyed)
    IN  Take([i \in 1..Len(sorted) |-> sorted[i].item], n)

(***************************************************************************)
(* The helpers of quality_report                                           *)
(***************************************************************************)
\* _ttr giving 1.0 for no words
TtrOneForNone(words) ==
    IF words = <<>> THEN QInt(1)
    ELSE Q(Cardinality({Lower(words[i]) : i \in 1..Len(words)}), Max2(1, Len(words)))

\* _ttr
Ttr(words) ==
    IF words = <<>> THEN QInt(0)
    ELSE Q(Cardinality({Lower(words[i]) : i \in 1..Len(words)}), Max2(1, Len(words)))

\* " ".join(ws)
RECURSIVE JoinSpace(_)
JoinSpace(ws) ==
    IF ws = <<>> THEN <<>>
    ELSE IF Len(ws) = 1 THEN ws[1]
    ELSE ws[1] \o <<SP>> \o JoinSpace(Tail(ws))

\* _ngrams with range(len(tokens)-n): the last n-gram is left out
NgramsButLast(tokens, n) ==
    [i \in 1..Max2(0, Len(tokens) - n) |-> JoinSpace(SubSeq(tokens, i, i + n - 1))]

\* _ngrams
Ngrams(tokens, n) ==
    [i \in 1..Max2(0, Len(tokens) - n + 1) |-> JoinSpace(SubSeq(tokens, i, i + n - 1))]

\* _clip without its upper bound
ClipFromBelow(x, lo, hi) == QMax(lo, x)

\* _clip
Clip(x, lo, hi) == QMax(lo, QMin(hi, x))

\* _percent
Percent(x, total) == IF total # 0 THEN Q(100 * x, total) ELSE QInt(0)

\* str.replace("\n", " ")
NewlinesToSpaces(s) == [i \in 1..Len(s) |-> IF s[i] = NL THEN SP ELSE s[i]]

PAD == 28

\* _extract_excerpt with the pad counted from the start of the match on
\* both sides
ExcerptAroundStart(txt, span, pad) ==
    LET s == Max2(0, span[1] - pad)
        e == Min2(Len(txt), span[1] + pad)
    IN  NewlinesToSpaces(Slice(txt, s, e))

\* _extract_excerpt (span: <<start, end>>)
ExtractExcerpt(txt, span, pad) ==
    LET s == Max2(0, span[1] - pad)
        e == Min2(Len(txt), span[2] + pad)
    IN  NewlinesToSpaces(Slice(txt, s, e))

\* len(g.split()) for a phrase g
SplitLen(g) ==
    Cardinality({i \in 1..Len(g) : ~IsSpace(g[i]) /\ (i = 1 \/ IsSpace(g[i - 1]))})

\* the count taken over the first half of the words only
CountInFirstHalf(words, S) ==
    Cardinality({i \in 1..(Len(words) \div 2) : words[i] \in S})

\* sum(1 for w in words if w in S)
CountIn(words, S) == Cardinality({i \in 1..Len(words) : words[i] \in S})

\* the lengths as they are, an empty list included: what `lens or [0]`
\* would be without its `or [0]`
AsIs(lens) == lens

\* `lens or [0]`
OrZero(lens) == IF lens = <<>> THEN <<0>> ELSE lens

(***************************************************************************)
(* quality_report, block by block.  Each operator computes the locals of   *)
(* one block from the text, the tables and the locals computed before it.  *)
(***************************************************************************)
TOP_STARTS == 5
NGRAM_POOL == 30
BIGRAM_MIN == 3
TRIGRAM_MIN == 2
MAX_PHRASES == 15
SHORT_PARA == 20
LONG_PARA == 100
LONG_SENT == 28

\* text, words, sentences, paragraphs
Segment(txt) ==
    [words |-> Words(txt),
     sentences |-> SplitSentences(txt),
     paragraphs |-> SplitParagraphs(txt)]

SentLens(seg) ==
    OrZero([i \in 1..Len(seg.sentences) |-> Len(Words(seg.sentences[i]))])

ParaLens(seg) ==
    OrZero([i \in 1..Len(seg.paragraphs) |-> Len(Words(seg.paragraphs[i]))])

\* the lowercased first token of every sentence that has a token
Starts(seg) ==
    LET first == [i \in 1..Len(seg.sentences) |->
                    LET toks == Words(seg.sentences[i])
                    IN  IF toks # <<>> THEN Lower(toks[1]) ELSE <<>>]
    IN  SelectSeq(first, LAMBDA w : w # <<>>)

\* start_hhi with the shares taken over len(start_top)
StartHhiOverTop(start_top, starts) ==
    IF starts # <<>>
    THEN Q(SumSeq([i \in 1..Len(start_top) |-> start_top[i][2] * start_top[i][2]]),
           Len(start_top) * Len(start_top))
    ELSE QInt(0)

\* start_hhi with the shares summed without squaring them
StartShareSum(start_top, starts) ==
    IF starts # <<>>
    THEN Q(SumSeq([i \in 1..Len(start_top) |-> start_top[i][2]]), Len(starts))
    ELSE QInt(0)

\* start_hhi with the shares of all the starts, not of start_top only
StartHhiOverAll(start_top, starts) ==
    IF starts # <<>>
    THEN Q(SumSeq([i \in 1..Len(starts) |-> Cardinality({j \in 1..Len(starts) : starts[j] = starts[i]})]),
           Len(starts) * Len(starts))
    ELSE QInt(0)

\* sum((c/len(starts))**2 for _, c in start_top) if starts else 0.0
StartHhi(start_top, starts) ==
    IF starts # <<>>
    THEN Q(SumSeq([i \in 1..Len(start_top) |-> start_top[i][2] * start_top[i][2]]),
           Len(starts) * Len(starts))
    ELSE QInt(0)

\* the divisors the structure block divides by
StructureDivisors(seg) ==
    {Len(SentLens(seg)), Len(ParaLens(seg))}
        \cup (IF Starts(seg) # <<>> THEN {Len(Starts(seg))} ELSE {})

\* sentence and paragraph lengths, variety of the sentence starts
Structure(seg) ==
    LET sent_lens == SentLens(seg)
        para_lens == ParaLens(seg)
        avg_sent == Q(SumSeq(sent_lens), Len(sent_lens))
        avg_para == Q(SumSeq(para_lens), Len(para_lens))
        \* sum((x - avg_para)**2 for x in para_lens) / len(para_lens)
        var_para ==
            IF para_lens # <<>>
            THEN Q(SumSeq([i \in 1..Len(para_lens) |->
                        (para_lens[i] * avg_para.d - avg_para.n)
                            * (para_lens[i] * avg_para.d - avg_para.n)]),
                   avg_para.d * avg_para.d * Len(para_lens))
            ELSE QInt(0)
        starts == Starts(seg)
        start_top == MostCommon(Counter(starts), TOP_STARTS)
    IN  [avg_sent |-> avg_sent,
         avg_para |-> avg_para,
         var_para |-> var_para,
         pct_short_para |->
            Percent(Cardinality({i \in 1..Len(para_lens) : para_lens[i] < SHORT_PARA}),
                    Len(para_lens)),
         pct_long_para |->
            Percent(Cardinality({i \in 1..Len(para_lens) : para_lens[i] > LONG_PARA}),
                    Len(para_lens)),
         start_top |-> start_top,
         start_hhi |-> StartHhi(start_top, starts)]

\* toks_lower
TokensWithoutStopwords(words, tb) ==
    SelectSeq([i \in 1..Len(words) |-> Lower(words[i])],
              LAMBDA w : w \notin tb.AR_STOPWORDS)

\* the pairs kept when the count has to exceed min
FlaggedAbove(tokens, n, min) ==
    SelectSeq(MostCommon(Counter(Ngrams(tokens, n)), NGRAM_POOL),
              LAMBDA gc : gc[2] > min /\ SplitLen(gc[1]) >= n)

\* the (gram, count) pairs kept from the pool most common n-grams
Flagged(tokens, n, min) ==
    SelectSeq(MostCommon(Counter(Ngrams(tokens, n)), NGRAM_POOL),
              LAMBDA gc : gc[2] >= min /\ SplitLen(gc[1]) >= n)

\* repeated: sorted(..., key=lambda x: (-x[1], -len(x[0])))
Repeated(tokens) ==
    LET found == Flagged(tokens, 2, BIGRAM_MIN) \o Flagged(tokens, 3, TRIGRAM_MIN)
        keyed == [i \in 1..Len(found) |->
                    [item |-> found[i], k1 |-> found[i][2], k2 |-> Len(found[i][1])]]
        sorted == SortDesc(keyed)
    IN  [i \in 1..Len(sorted) |-> sorted[i].item]

\* sensory ratio and repeated n-grams
LexiconScan(seg, tb) ==
    LET words == seg.words
        sens_hits == CountIn([i \in 1..Len(words) |-> Lower(words[i])], tb.SENSORY_TERMS)
    IN  [sensory_ratio |-> Percent(sens_hits, Len(words)),
         repeated |-> Repeated(TokensWithoutStopwords(words, tb))]

\* the flags of template number k
RECURSIVE FlagsOf(_, _, _)
FlagsOf(txt, tb, k) ==
    IF k > Len(tb.BOILERPLATE_PATTERNS) THEN <<>>
    ELSE LET spans == FindIter(tb.BOILERPLATE_PATTERNS[k], txt, TRUE)
         IN  [i \in 1..Len(spans) |->
                 [pattern |-> k, excerpt |-> ExtractExcerpt(txt, spans[i], PAD)]]
             \o FlagsOf(txt, tb, k + 1)

\* boiler_flags; a template is named by its place in BOILERPLATE_PATTERNS
BoilerFlags(txt, tb) == FlagsOf(txt, tb, 1)

PassiveHits(txt) == Len(FindIter(PASSIVE_RE, txt, FALSE))

\* boilerplate flags and the passive ratio
Patterns(txt, seg, tb) ==
    [boiler_flags |-> BoilerFlags(txt, tb),
     passive_ratio |-> Percent(PassiveHits(txt), Max2(1, Len(seg.sentences)))]

Flag(b) == IF b THEN 1 ELSE 0

\* the balance with a difference of 2 already leaning
BalanceBelowTwo(pos, neg) ==
    IF Abs(pos - neg) < 2 THEN "neutral"
    ELSE IF pos > neg THEN "positive-leaning" ELSE "critical-leaning"

\* sentiment["balance"]: neutral, positive-leaning, critical-leaning
Balance(pos, neg) ==
    IF Abs(pos - neg) <= 2 THEN "neutral"
    ELSE IF pos > neg THEN "positive-leaning" ELSE "critical-leaning"

\* info_gain_points with one point for every match of the tip pattern
InfoGainMatches(txt) ==
    Len(FindIter(TIP_RE, txt, TRUE)) + Flag(Search(COMPARISON_RE, txt, FALSE))
        + Flag(Search(CRITICISM_RE, txt, FALSE)) + Flag(Search(PLACE_RE, txt, FALSE))
        + Flag(Search(PRIOR_VISIT_RE, txt, FALSE))

InfoGainPoints(txt) ==
    Flag(Search(TIP_RE, txt, TRUE)) + Flag(Search(COMPARISON_RE, txt, FALSE))
        + Flag(Search(CRITICISM_RE, txt, FALSE)) + Flag(Search(PLACE_RE, txt, FALSE))
        + Flag(Search(PRIOR_VISIT_RE, txt, FALSE))

\* ttr, sentiment, absolutes, headings, E-E-A-T, information gain
Signals(txt, seg, tb) ==
    LET words == seg.words
        lowered == [i \in 1..Len(words) |-> Lower(words[i])]
        pos == CountIn(lowered, tb.POSITIVE_TERMS)
        neg == CountIn(lowered, tb.NEGATIVE_TERMS)
        eeat_signals ==
            [experience |-> Flag(Search(EXPERIENCE_RE, txt, FALSE)),
             expertise |-> Flag(Search(EXPERTISE_RE, txt, FALSE)),
             author |-> Flag(Search(AUTHOR_RE, txt, FALSE)),
             trust |-> Flag(Search(TRUST_RE, txt, FALSE))]
    IN  [ttr |-> Ttr(words),
         sentiment |-> [positive |-> pos, negative |-> neg, balance |-> Balance(pos, neg)],
         abs_count |-> CountIn(words, tb.ABSOLUTE_WORDS),
         h2 |-> Len(FindIter(H2_RE, txt, FALSE)),
         h3 |-> Len(FindIter(H3_RE, txt, FALSE)),
         faq |-> Flag(Search(FAQ_RE, txt, TRUE)),
         eeat_signals |-> eeat_signals,
         eeat_score |->
            Q((eeat_signals.experience + eeat_signals.expertise
                 + eeat_signals.author + eeat_signals.trust) * 100, 4),
         info_gain_score |-> Clip(Q(InfoGainPoints(txt) * 100, 5), QInt(0), QInt(100))]

\* len(boiler_flags) + abs_count + sum(c-2 for _, c in repeated if c >= 3)
FluffUnits(boiler_flags, abs_count, repeated) ==
    Len(boiler_flags) + abs_count
        + SumSeq([i \in 1..Len(repeated) |->
                    IF repeated[i][2] >= 3 THEN repeated[i][2] - 2 ELSE 0])

\* fluff_density with the true quotient word_count / 50
FluffDensityTrueQuotient(fluff_units, word_count) ==
    Q(100 * fluff_units * 50, Max2(50, word_count))

\* _percent(fluff_units, max(1, word_count//50))
FluffDensity(fluff_units, word_count) ==
    Percent(fluff_units, Max2(1, word_count \div 50))

\* base_score with the starts penalised by their distance from 0.2
BaseScoreByDistance(m) ==
    LET hhi_penalty ==
            Clip(QMul(QMax(QSub(m.start_hhi, Q(2, 10)), QSub(Q(2, 10), m.start_hhi)), QInt(200)), QInt(0), QInt(40))
        passive_penalty == Clip(m.passive_ratio, QInt(0), QInt(30))
        fluff_penalty == Clip(m.fluff_density, QInt(0), QInt(30))
        long_sent_penalty ==
            IF QLt(QInt(LONG_SENT), m.avg_sent) THEN QInt(10) ELSE QInt(0)
        bonus == QAdd(Clip(Q(m.sensory_ratio.n, m.sensory_ratio.d * 2), QInt(0), QInt(20)),
                 QAdd(Clip(QMul(m.ttr, QInt(40)), QInt(0), QInt(20)),
                      Clip(Q(m.info_gain_score.n, m.info_gain_score.d * 5),
                           QInt(0), QInt(20))))
        penalty == QAdd(QAdd(hhi_penalty, passive_penalty),
                        QAdd(fluff_penalty, long_sent_penalty))
    IN  QSub(QAdd(QInt(50), bonus), penalty)

\* base_score before the final _clip
BaseScore(m) ==
    LET hhi_penalty ==
            Clip(QMul(QSub(m.start_hhi, Q(2, 10)), QInt(200)), QInt(0), QInt(40))
        passive_penalty == Clip(m.passive_ratio, QInt(0), QInt(30))
        fluff_penalty == Clip(m.fluff_density, QInt(0), QInt(30))
        long_sent_penalty ==
            IF QLt(QInt(LONG_SENT), m.avg_sent) THEN QInt(10) ELSE QInt(0)
        bonus == QAdd(Clip(Q(m.sensory_ratio.n, m.sensory_ratio.d * 2), QInt(0), QInt(20)),
                 QAdd(Clip(QMul(m.ttr, QInt(40)), QInt(0), QInt(20)),
                      Clip(Q(m.info_gain_score.n, m.info_gain_score.d * 5),
                           QInt(0), QInt(20))))
        penalty == QAdd(QAdd(hhi_penalty, passive_penalty),
                        QAdd(fluff_penalty, long_sent_penalty))
    IN  QSub(QAdd(QInt(50), bonus), penalty)

\* human_style_score without the final _clip
UnclippedScore(m) == BaseScore(m)

\* human_style_score
HumanStyleScore(m) == Clip(BaseScore(m), QInt(0), QInt(100))

\* fluff density and the composite score
Score(seg, st, lex, pat, sig) ==
    LET fluff_density ==
            FluffDensity(FluffUnits(pat.boiler_flags, sig.abs_count, lex.repeated),
                         Len(seg.words))
        m == [start_hhi |-> st.start_hhi, passive_ratio |-> pat.passive_ratio,
              fluff_density |-> fluff_density, avg_sent |-> st.avg_sent,
              sensory_ratio |-> lex.sensory_ratio, ttr |-> sig.ttr,
              info_gain_score |-> sig.info_gain_score]
    IN  [fluff_density |-> fluff_density,
         base_score |-> BaseScore(m),
         human_style_score |-> HumanStyleScore(m)]

\* _build_tips with the E-E-A-T check as an elif of the information gain check
BuildTipsElif(sensory_ratio, ttr, passive_ratio, fluff_density, start_hhi, avg_sent, info_gain_score, eeat_score, abs_count, repeated, boiler) ==
    (IF QLt(sensory_ratio, Q(8, 10)) THEN <<"sensory">> ELSE <<>>)
    \o (IF QLt(ttr, Q(35, 100)) THEN <<"vocabulary">> ELSE <<>>)
    \o (IF QLt(QInt(12), passive_ratio) THEN <<"passive">> ELSE <<>>)
    \o (IF QLt(QInt(25), fluff_density) THEN <<"fluff">> ELSE <<>>)
    \o (IF QLt(Q(28, 100), start_hhi) THEN <<"starts">> ELSE <<>>)
    \o (IF QLt(QInt(28), avg_sent) THEN <<"long_sentences">> ELSE <<>>)
    \o (IF QLt(info_gain_score, QInt(60)) THEN <<"info_gain">>
        ELSE IF QLt(eeat_score, QInt(50)) THEN <<"eeat">> ELSE <<>>)
    \o (IF abs_count > 0 THEN <<"absolutes">> ELSE <<>>)
    \o (IF Take(repeated, 1) # <<>> THEN <<"repeated">> ELSE <<>>)
    \o (IF Take(boiler, 1) # <<>> THEN <<"boilerplate">> ELSE <<>>)

\* _build_tips: the tips are named here by what they advise, in the order
\* of the appends
BuildTips(sensory_ratio, ttr, passive_ratio, fluff_density, start_hhi, avg_sent, info_gain_score, eeat_score, abs_count, repeated, boiler) ==
    (IF QLt(sensory_ratio, Q(8, 10)) THEN <<"sensory">> ELSE <<>>)
    \o (IF QLt(ttr, Q(35, 100)) THEN <<"vocabulary">> ELSE <<>>)
    \o (IF QLt(QInt(12), passive_ratio) THEN <<"passive">> ELSE <<>>)
    \o (IF QLt(QInt(25), fluff_density) THEN <<"fluff">> ELSE <<>>)
    \o (IF QLt(Q(28, 100), start_hhi) THEN <<"starts">> ELSE <<>>)
    \o (IF QLt(QInt(28), avg_sent) THEN <<"long_sentences">> ELSE <<>>)
    \o (IF QLt(info_gain_score, QInt(60)) THEN <<"info_gain">> ELSE <<>>)
    \o (IF QLt(eeat_score, QInt(50)) THEN <<"eeat">> ELSE <<>>)
    \o (IF abs_count > 0 THEN <<"absolutes">> ELSE <<>>)
    \o (IF Take(repeated, 1) # <<>> THEN <<"repeated">> ELSE <<>>)
    \o (IF Take(boiler, 1) # <<>> THEN <<"boilerplate">> ELSE <<>>)

\* the returned dict
Report(txt, seg, st, lex, pat, sig, sc) ==
    [char_count |-> Len(txt),
     word_count |-> Len(seg.words),
     sentence_count |-> Len(seg.sentences),
     paragraph_count |-> Len(seg.paragraphs),
     avg_sentence_length |-> Round(st.avg_sent, 2),
     paragraph_metrics |->
        [avg_len |-> Round(st.avg_para, 1),
         std_len |-> RoundSqrt1(st.var_para),
         pct_short_lt20w |-> Round(st.pct_short_para, 1),
         pct_long_gt100w |-> Round(st.pct_long_para, 1)],
     sentence_variety |->
        [start_top |-> st.start_top, start_hhi |-> Round(st.start_hhi, 3)],
     ttr |-> Round(sig.ttr, 3),
     sensory_ratio |-> Round(lex.sensory_ratio, 2),
     passive_ratio |-> Round(pat.passive_ratio, 2),
     boilerplate_flags |-> pat.boiler_flags,
     repeated_phrases |-> Take(lex.repeated, MAX_PHRASES),
     absolutes_count |-> sig.abs_count,
     sentiment |-> sig.sentiment,
     headings |-> [h2 |-> sig.h2, h3 |-> sig.h3, faq_sections |-> sig.faq],
     eeat |-> sig.eeat_signals,
     eeat_score |-> Round(sig.eeat_score, 1),
     info_gain_score |-> Round(sig.info_gain_score, 1),
     fluff_density |-> Round(sc.fluff_density, 2),
     human_style_score |-> Round(sc.human_style_score, 1),
     tips |-> BuildTips(lex.sensory_ratio, sig.ttr, pat.passive_ratio,
                        sc.fluff_density, st.start_hhi, st.avg_sent,
                        sig.info_gain_score, sig.eeat_score, sig.abs_count,
                        lex.repeated, pat.boiler_flags)]

\* quality_report(txt) run from start to end with the tables tb
QualityReport(txt, tb) ==
    LET seg == Segment(txt)
        st == Structure(seg)
        lex == LexiconScan(seg, tb)
        pat == Patterns(txt, seg, tb)
        sig == Signals(txt, seg, tb)
        sc == Score(seg, st, lex, pat, sig)
    IN  Report(txt, seg, st, lex, pat, sig, sc)


(***************************************************************************)
(* utils/llm_cache.py, utils/openai_client.py, utils/places_provider.py:   *)
(* the values the state starts from.                                       *)
(***************************************************************************)
\* Python's None where a string or a store is expected
None == "None"

DEFAULT_CACHE_DIR == "data/llm_cache"
OtherDir == "data/other_cache"
Dirs == {DEFAULT_CACHE_DIR, OtherDir}

\* the sessions of the application, each with its own LLMCacher in
\* st.session_state
NSessions == 2
Sessions == 1..NSessions

\* no LLMCacher built yet
NoCacher == [made |-> FALSE, enabled |-> FALSE, ttl |-> 0, cache |-> None]

\* an empty cache directory
NoEntries == [k \in {} |-> None]

\* the arguments of no call
NoRequest ==
    [messages |-> <<>>, model |-> None, fallback_model |-> None,
     temperature |-> QInt(0), max_tokens |-> QInt(0), cacher |-> FALSE,
     cache_extra |-> [given |-> FALSE, dict |-> {}]]

\* the session is in no call of chat_complete_cached
NoChat ==
    [pc |-> "idle", n |-> 0, req |-> NoRequest, key |-> <<>>, trace |-> <<>>, i |-> 0,
     last_err |-> None, out |-> None]

\* no method of the LLMCacher called yet
NoReturn == [op |-> None, key |-> <<>>, value |-> None, ok |-> FALSE]

\* dedupe_places not called yet
NoPlaces == [pc |-> "idle", items |-> <<>>, out |-> <<>>, again |-> <<>>]

(***************************************************************************)
(* The calls.  quality_report is called from several threads (the pages   *)
(* of the application); a call runs the blocks of the function in order.  *)
(* tables holds the module-level names every call reads, loc the frame of *)
(* the call of each thread, result the dict a call returned.              *)
(***************************************************************************)
VARIABLES tables, pc, text, loc, result

\* the state of the other modules: the name Cache the import of diskcache
\* left in llm_cache, the LLMCacher of each session of the application, the
\* cache directories on disk, the clock, what the last method called on
\* each LLMCacher returned, the frame of each session's call of
\* chat_complete_cached, and the frame of a call of dedupe_places
VARIABLES Cache, cacher, disk, now, ret, chat, places

reportVars == <<tables, pc, text, loc, result>>
clientVars == <<Cache, cacher, disk, now, ret, chat>>
vars == <<tables, pc, text, loc, result, Cache, cacher, disk, now, ret, chat, places>>

NThreads == 2
Threads == 1..NThreads

\* the frame of a thread that is in no call, and the locals of a call
\* before their assignment
NoLocals ==
    [seg |-> [words |-> <<>>, sentences |-> <<>>, paragraphs |-> <<>>],
     st |-> [avg_sent |-> QInt(0), avg_para |-> QInt(0), var_para |-> QInt(0),
             pct_short_para |-> QInt(0), pct_long_para |-> QInt(0),
             start_top |-> <<>>, start_hhi |-> QInt(0)],
     lex |-> [sensory_ratio |-> QInt(0), repeated |-> <<>>],
     pat |-> [boiler_flags |-> <<>>, passive_ratio |-> QInt(0)],
     sig |-> [ttr |-> QInt(0),
              sentiment |-> [positive |-> 0, negative |-> 0, balance |-> "neutral"],
              abs_count |-> 0, h2 |-> 0, h3 |-> 0, faq |-> 0,
              eeat_signals |-> [experience |-> 0, expertise |-> 0,
                                author |-> 0, trust |-> 0],
              eeat_score |-> QInt(0), info_gain_score |-> QInt(0)],
     sc |-> [fluff_density |-> QInt(0), base_score |-> QInt(0),
             human_style_score |-> QInt(0)]]

\* no dict returned yet
NoReport == [word_count |-> -1]

\* the locals kept in the frame of thread 1 whoever runs
FrameOfFirst(t) == loc[1]

\* the locals kept in the frame of the highest thread whoever runs
FrameOfLast(t) == loc[NThreads]

\* the locals of the call running in thread t
Frame(t) == loc[t]

Init ==
    /\ tables = InitialTables
    /\ pc = [t \in Threads |-> "idle"]
    /\ text = [t \in Threads |-> <<>>]
    /\ loc = [t \in Threads |-> NoLocals]
    /\ result = [t \in Threads |-> NoReport]
    /\ Cache = "not imported"
    /\ cacher = [s \in Sessions |-> NoCacher]
    /\ disk = [d \in Dirs |-> NoEntries]
    /\ now = 0
    /\ ret = [s \in Sessions |-> NoReturn]
    /\ chat = [s \in Sessions |-> NoChat]
    /\ places = NoPlaces

\* quality_report(txt) is entered
Call(t, txt) ==
    /\ pc[t] = "idle"
    /\ pc' = [pc EXCEPT ![t] = "segment"]
    /\ text' = [text EXCEPT ![t] = txt]
    /\ loc' = [loc EXCEPT ![t] = NoLocals]
    /\ UNCHANGED <<tables, result>>
    /\ UNCHANGED <<clientVars, places>>

\* words, sentences, paragraphs
SegmentStep(t) ==
    /\ pc[t] = "segment"
    /\ loc' = [loc EXCEPT ![t].seg = Segment(text[t])]
    /\ pc' = [pc EXCEPT ![t] = "structure"]
    /\ UNCHANGED <<tables, text, result>>
    /\ UNCHANGED <<clientVars, places>>

\* lengths and sentence starts; a division by zero raises ZeroDivisionError
\* and ends the call
StructureStep(t) ==
    /\ pc[t] = "structure"
    /\ IF 0 \in StructureDivisors(Frame(t).seg)
       THEN /\ pc' = [pc EXCEPT ![t] = "raised"]
            /\ UNCHANGED loc
       ELSE /\ loc' = [loc EXCEPT ![t].st = Structure(Frame(t).seg)]
            /\ pc' = [pc EXCEPT ![t] = "lexicon"]
    /\ UNCHANGED <<tables, text, result>>
    /\ UNCHANGED <<clientVars, places>>

\* sensory terms and repeated n-grams
LexiconStep(t) ==
    /\ pc[t] = "lexicon"
    /\ loc' = [loc EXCEPT ![t].lex = LexiconScan(Frame(t).seg, tables)]
    /\ pc' = [pc EXCEPT ![t] = "patterns"]
    /\ UNCHANGED <<tables, text, result>>
    /\ UNCHANGED <<clientVars, places>>

\* boilerplate templates and the passive marker
PatternStep(t) ==
    /\ pc[t] = "patterns"
    /\ loc' = [loc EXCEPT ![t].pat = Patterns(text[t], Frame(t).seg, tables)]
    /\ pc' = [pc EXCEPT ![t] = "signals"]
    /\ UNCHANGED <<tables, text, result>>
    /\ UNCHANGED <<clientVars, places>>

\* ttr, sentiment, absolutes, headings, E-E-A-T, information gain
SignalStep(t) ==
    /\ pc[t] = "signals"
    /\ loc' = [loc EXCEPT ![t].sig = Signals(text[t], Frame(t).seg, tables)]
    /\ pc' = [pc EXCEPT ![t] = "score"]
    /\ UNCHANGED <<tables, text, result>>
    /\ UNCHANGED <<clientVars, places>>

\* fluff density and the composite score
ScoreStep(t) ==
    /\ pc[t] = "score"
    /\ loc' = [loc EXCEPT ![t].sc =
                  Score(Frame(t).seg, Frame(t).st, Frame(t).lex,
                        Frame(t).pat, Frame(t).sig)]
    /\ pc' = [pc EXCEPT ![t] = "return"]
    /\ UNCHANGED <<tables, text, result>>
    /\ UNCHANGED <<clientVars, places>>

\* the dict is built and returned
Return(t) ==
    /\ pc[t] = "return"
    /\ result' = [result EXCEPT ![t] =
                    Report(text[t], Frame(t).seg, Frame(t).st, Frame(t).lex,
                           Frame(t).pat, Frame(t).sig, Frame(t).sc)]
    /\ pc' = [pc EXCEPT ![t] = "done"]
    /\ UNCHANGED <<tables, text, loc>>
    /\ UNCHANGED <<clientVars, places>>

\* the caller is through with the dict (or with the exception)
Finish(t) ==
    /\ pc[t] \in {"done", "raised"}
    /\ pc' = [pc EXCEPT ![t] = "idle"]
    /\ text' = [text EXCEPT ![t] = <<>>]
    /\ loc' = [loc EXCEPT ![t] = NoLocals]
    /\ result' = [result EXCEPT ![t] = NoReport]
    /\ UNCHANGED tables
    /\ UNCHANGED <<clientVars, places>>

\* the blocks of a call in thread t
Step(t) ==
    \/ SegmentStep(t) \/ StructureStep(t) \/ LexiconStep(t) \/ PatternStep(t)
    \/ SignalStep(t) \/ ScoreStep(t) \/ Return(t) \/ Finish(t)

(***************************************************************************)
(* Input texts: concatenations of a few lexemes.                           *)
(***************************************************************************)
RECURSIVE Concat(_)
Concat(ss) == IF ss = <<>> THEN <<>> ELSE Head(ss) \o Concat(Tail(ss))

\* the concatenations of at most n lexemes of L
Compose(L, n) == {Concat(s) : s \in UNION {[1..k -> L] : k \in 0..n}}

MaxLexemes == 4
LongWordLen == 60

\* the passive marker, an absolute word, a sensory term, a terminator, a
\* line break, a Latin token with capitals
Lexemes ==
    {<<1578, 1605, 32>>, <<1580, 1605, 1610, 1593, 32>>,
     <<1591, 1575, 1586, 1580, 32>>, <<DOT, SP>>, <<NL>>, <<66, 97, SP>>}

\* one very long word
LongWord == [i \in 1..LongWordLen |-> 1605]

\* five sentences with five starts, a tip, a comparison, a criticism, a
\* place, an earlier visit, and five sensory terms among twelve words
RichText ==
    <<1606, 1589, 1610, 1581, 1577, 32, 1591, 1575, 1586, 1580, 46, 32,
      1605, 1602, 1575, 1585, 1606, 1577, 32, 1581, 1575, 1585, 46, 32,
      1610, 1605, 1603, 1606, 32, 1578, 1581, 1587, 1610, 1606, 32,
      1605, 1602, 1585, 1605, 1588, 46, 32,
      1605, 1608, 1604, 32, 1606, 1575, 1593, 1605, 46, 32,
      1578, 1580, 1585, 1576, 1577, 32, 1587, 1575, 1576, 1602, 1577, 32,
      1581, 1604, 1608, 46>>

Texts == Compose(Lexemes, MaxLexemes) \cup {LongWord, RichText}

\* one caller, any text of Texts
Next == (\E txt \in Texts : Call(1, txt)) \/ Step(1)

Spec == Init /\ [][Next]_vars

Done(t) == pc[t] = "done"

(***************************************************************************)
(* utils/llm_cache.py: LLMCacher over a diskcache directory.  An entry of  *)
(* a directory holds the value and the time it expires at; req and by     *)
(* remember the call of chat_complete_cached that wrote it and the model  *)
(* that answered.  diskcache raising (a locked or damaged directory) is   *)
(* left out: the directories work.                                         *)
(***************************************************************************)
\* int(x) of a float: truncation towards zero
IntOf(x) == IF x.n >= 0 THEN x.n \div x.d ELSE -((-x.n) \div x.d)

\* max(1, int(ttl_hours)) * 3600
TtlOf(ttl_hours) == Max2(1, IntOf(ttl_hours)) * 3600

\* the Cache class was imported
Installed == Cache = "class"

\* LLMCacher(cache_dir, ttl_hours, enabled)
LLMCacher(installed, cache_dir, ttl_hours, enabled) ==
    LET en == enabled /\ installed
    IN  [made |-> TRUE, enabled |-> en, ttl |-> TtlOf(ttl_hours),
         cache |-> IF en THEN cache_dir ELSE None]

\* configure that takes the switch as it is given
ConfiguredAsGiven(c, installed, enabled, ttl_hours) ==
    LET en == IF enabled = <<>> THEN c.enabled ELSE enabled[1]
        ca == IF enabled # <<>> /\ en /\ c.cache = None /\ installed
              THEN DEFAULT_CACHE_DIR ELSE c.cache
        tt == IF ttl_hours = <<>> THEN c.ttl ELSE TtlOf(ttl_hours[1])
    IN  [c EXCEPT !.enabled = en, !.cache = ca, !.ttl = tt]

\* configure(enabled, ttl_hours) on the cacher c; an argument is <<>> when
\* left out (None) and <<v>> when given
Configured(c, installed, enabled, ttl_hours) ==
    LET en == IF enabled = <<>> THEN c.enabled
              ELSE enabled[1] /\ (c.cache # None \/ installed)
        ca == IF enabled # <<>> /\ en /\ c.cache = None /\ installed
              THEN DEFAULT_CACHE_DIR ELSE c.cache
        tt == IF ttl_hours = <<>> THEN c.ttl ELSE TtlOf(ttl_hours[1])
    IN  [c EXCEPT !.enabled = en, !.cache = ca, !.ttl = tt]

\* Cache.get(key, default=None) at time t: an entry is read until it expires
CacheGet(store, key, t) ==
    IF key \in DOMAIN store /\ store[key].expire > t
    THEN store[key].value ELSE None

\* Cache.set(key, value, expire=ttl)
CachePut(store, key, e) ==
    [k \in DOMAIN store \cup {key} |-> IF k = key THEN e ELSE store[k]]

\* LLMCacher.get(key)
CacherGet(c, d, key, t) ==
    IF ~c.enabled \/ c.cache = None THEN None
    ELSE CacheGet(d[c.cache], key, t)

\* LLMCacher.set(key, value): the directories after the call
CacherSet(c, d, key, e, t) ==
    IF ~c.enabled \/ c.cache = None THEN d
    ELSE [d EXCEPT ![c.cache] = CachePut(@, key, [e EXCEPT !.expire = t + c.ttl])]

\* LLMCacher.clear(): what it returns and the directories after the call
CacherClear(c, d) ==
    IF ~c.enabled \/ c.cache = None THEN [ok |-> FALSE, disk |-> d]
    ELSE [ok |-> TRUE, disk |-> [d EXCEPT ![c.cache] = NoEntries]]

\* an entry written by a direct call of set
PlainEntry(value) == [value |-> value, expire |-> 0, req |-> NoRequest, by |-> None]

\* the script of a session runs in one thread: it calls the methods of its
\* cacher between its calls of chat_complete_cached
Between(s) == chat[s].pc \in {"idle", "returned", "raised"}

\* llm_cache is imported: diskcache is installed or not
Import(installed) ==
    /\ Cache = "not imported"
    /\ Cache' = IF installed THEN "class" ELSE None
    /\ UNCHANGED <<reportVars, cacher, disk, now, ret, chat, places>>

\* the first run of a session builds its cacher
Construct(s, cache_dir, ttl_hours, enabled) ==
    /\ Cache # "not imported"
    /\ ~cacher[s].made
    /\ cacher' = [cacher EXCEPT ![s] = LLMCacher(Installed, cache_dir, ttl_hours, enabled)]
    /\ UNCHANGED <<reportVars, Cache, disk, now, ret, chat, places>>

\* a later run configures it
Configure(s, enabled, ttl_hours) ==
    /\ cacher[s].made
    /\ Between(s)
    /\ cacher' = [cacher EXCEPT ![s] = Configured(@, Installed, enabled, ttl_hours)]
    /\ UNCHANGED <<reportVars, Cache, disk, now, ret, chat, places>>

\* cacher.get(key)
GetOp(s, key) ==
    /\ cacher[s].made
    /\ Between(s)
    /\ ret' = [ret EXCEPT ![s] = [op |-> "get", key |-> key, ok |-> FALSE,
                                  value |-> CacherGet(cacher[s], disk, key, now)]]
    /\ UNCHANGED <<reportVars, Cache, cacher, disk, now, chat, places>>

\* cacher.set(key, value)
SetOp(s, key, value) ==
    /\ cacher[s].made
    /\ Between(s)
    /\ disk' = CacherSet(cacher[s], disk, key, PlainEntry(value), now)
    /\ ret' = [ret EXCEPT ![s] = [op |-> "set", key |-> key, ok |-> FALSE,
                                  value |-> value]]
    /\ UNCHANGED <<reportVars, Cache, cacher, now, chat, places>>

\* cacher.clear()
ClearOp(s) ==
    /\ cacher[s].made
    /\ Between(s)
    /\ disk' = CacherClear(cacher[s], disk).disk
    /\ ret' = [ret EXCEPT ![s] = [op |-> "clear", key |-> <<>>, value |-> None,
                                  ok |-> CacherClear(cacher[s], disk).ok]]
    /\ UNCHANGED <<reportVars, Cache, cacher, now, chat, places>>

\* an hour passes
MaxHours == 1
Tick ==
    /\ now < MaxHours * 3600
    /\ now' = now + 3600
    /\ UNCHANGED <<reportVars, Cache, cacher, disk, ret, chat, places>>

(***************************************************************************)
(* utils/openai_client.py: chat_complete_cached.  sha256 is taken to have  *)
(* no collisions: a digest is modelled by the bytes it was taken of.       *)
(***************************************************************************)
\* what Python takes for true of a model name
Truthy(m) == m # None /\ m # ""

\* _hash_messages: the roles and the contents, fed one after the other
RECURSIVE HashMessages(_)
HashMessages(messages) ==
    IF messages = <<>> THEN <<>>
    ELSE Head(messages).role \o Head(messages).content \o HashMessages(Tail(messages))

\* cache_extra or {}
ExtraOf(cache_extra) == IF cache_extra.given THEN cache_extra.dict ELSE {}

\* the cache key of a call
CacheKey(req) ==
    <<req.model, Round(req.temperature, 3), IntOf(req.max_tokens),
      HashMessages(req.messages), ExtraOf(req.cache_extra)>>

\* a key that names the model asked
KeyOfModel(req, mdl) == [CacheKey(req) EXCEPT ![1] = mdl]

\* the key an answer of the model mdl is stored under
StoreKey(req, mdl) == CacheKey(req)

\* the models the loop goes through
Attempts(req) ==
    IF Truthy(req.fallback_model) THEN <<req.model, req.fallback_model>>
    ELSE <<req.model>>

\* cacher and getattr(cacher, "enabled", True)
UsesCache(s) == chat[s].req.cacher /\ cacher[s].enabled

\* the entries of the trace of a call
GetEvent(key, hit) == [ev |-> "get", key |-> key, model |-> None, res |-> hit]
ModelEvent(mdl, ok, res) == [ev |-> IF ok THEN "answer" ELSE "error", key |-> <<>>, model |-> mdl, res |-> res]
SetEvent(key, value) == [ev |-> "set", key |-> key, model |-> None, res |-> value]

\* a hit is a text that is not empty
IsHitTruthy(hit) == hit # None /\ hit # ""

\* a hit is anything but None
IsHit(hit) == hit # None

\* the calls a session makes
MaxCalls == 2

\* chat_complete_cached(client, messages, ...) is entered: the key is built
ChatCall(s, req) ==
    /\ Between(s)
    /\ req.cacher => cacher[s].made
    /\ chat[s].n < MaxCalls
    /\ chat' = [chat EXCEPT ![s] = [NoChat EXCEPT !.pc = "lookup", !.req = req,
                                                  !.key = CacheKey(req),
                                                  !.n = chat[s].n + 1]]
    /\ UNCHANGED <<reportVars, Cache, cacher, disk, now, ret, places>>

\* the cache is tried
Lookup(s) ==
    /\ chat[s].pc = "lookup"
    /\ IF UsesCache(s)
       THEN LET hit == CacherGet(cacher[s], disk, chat[s].key, now)
            IN  chat' = [chat EXCEPT ![s].trace = Append(@, GetEvent(chat[s].key, hit)),
                                     ![s].pc = IF IsHit(hit) THEN "returned" ELSE "models",
                                     ![s].out = IF IsHit(hit) THEN hit ELSE @,
                                     ![s].i = 1]
       ELSE chat' = [chat EXCEPT ![s].pc = "models", ![s].i = 1]
    /\ UNCHANGED <<reportVars, Cache, cacher, disk, now, ret, places>>

\* the model the loop is at
Mdl(s) == Attempts(chat[s].req)[chat[s].i]

InLoop(s) == chat[s].pc = "models" /\ chat[s].i <= Len(Attempts(chat[s].req))

\* an empty model name is passed over
Skip(s) ==
    /\ InLoop(s)
    /\ ~Truthy(Mdl(s))
    /\ chat' = [chat EXCEPT ![s].i = @ + 1]
    /\ UNCHANGED <<reportVars, Cache, cacher, disk, now, ret, places>>

\* _chat_once returns a text: it is stored and returned
Answer(s, txt) ==
    /\ InLoop(s)
    /\ Truthy(Mdl(s))
    /\ LET key == StoreKey(chat[s].req, Mdl(s))
           entry == [value |-> txt, expire |-> 0, req |-> chat[s].req, by |-> Mdl(s)]
       IN  IF UsesCache(s)
           THEN /\ disk' = CacherSet(cacher[s], disk, key, entry, now)
                /\ chat' = [chat EXCEPT ![s].trace = @ \o <<ModelEvent(Mdl(s), TRUE, txt), SetEvent(key, txt)>>,
                                        ![s].pc = "returned", ![s].out = txt]
           ELSE /\ disk' = disk
                /\ chat' = [chat EXCEPT ![s].trace = Append(@, ModelEvent(Mdl(s), TRUE, txt)),
                                        ![s].pc = "returned", ![s].out = txt]
    /\ UNCHANGED <<reportVars, Cache, cacher, now, ret, places>>

\* _chat_once raises: the loop goes on
Error(s, e) ==
    /\ InLoop(s)
    /\ Truthy(Mdl(s))
    /\ chat' = [chat EXCEPT ![s].trace = Append(@, ModelEvent(Mdl(s), FALSE, e)),
                            ![s].last_err = e, ![s].i = @ + 1]
    /\ UNCHANGED <<reportVars, Cache, cacher, disk, now, ret, places>>

\* the loop is through without an answer
Fail(s) ==
    /\ chat[s].pc = "models"
    /\ chat[s].i > Len(Attempts(chat[s].req))
    /\ chat' = [chat EXCEPT ![s].pc = "raised",
                            ![s].out = IF chat[s].last_err # None THEN chat[s].last_err
                                       ELSE "RuntimeError"]
    /\ UNCHANGED <<reportVars, Cache, cacher, disk, now, ret, places>>

(***************************************************************************)
(* utils/places_provider.py: dedupe_places.                                *)
(***************************************************************************)
\* a number that a dict may lack or hold as None: the key is missing, the
\* value is None, or the value is the number x
Missing == [kind |-> "missing", v |-> QInt(0)]
PyNone == [kind |-> "None", v |-> QInt(0)]
Num(x) == [kind |-> "number", v |-> x]

\* unicodedata.combining(c) for the Arabic marks; the texts hold no
\* character that NFKD takes apart
IsCombining(c) == InRange(c, 1611, 1631) \/ c = 1648

\* [a-z0-9\u0600-\u06FF] of _slug
IsSlugChar(c) == InRange(c, 48, 57) \/ InRange(c, 97, 122) \/ InRange(c, 1536, 1791)

RECURSIVE JoinWith(_, _)
JoinWith(parts, sep) ==
    IF parts = <<>> THEN <<>>
    ELSE IF Len(parts) = 1 THEN parts[1]
    ELSE parts[1] \o sep \o JoinWith(Tail(parts), sep)

\* _slug: the marks are dropped, the text is lowered, every run of other
\* characters (whitespace, dashes, punctuation) becomes one dash, the dashes
\* at the ends are stripped; "x" for nothing left
Slug(name) ==
    LET s == Lower(SelectSeq(name, LAMBDA c : ~IsCombining(c)))
        runs == RunsOf(s, [i \in 1..Len(s) |-> IsSlugChar(s[i])])
    IN  IF runs = <<>> THEN <<120>> ELSE JoinWith(runs, <<45>>)

\* \d of the re module: the ASCII and the Arabic-Indic digits
IsDigit(c) == InRange(c, 48, 57) \/ InRange(c, 1632, 1641) \/ InRange(c, 1776, 1785)

\* _last4_digits
Last4Digits(phone) ==
    LET digits == SelectSeq(phone, IsDigit)
    IN  IF Len(digits) >= 4 THEN SubSeq(digits, Len(digits) - 3, Len(digits)) ELSE <<>>

\* the first position of s at or after from that holds a character of stop,
\* or Len(s) + 1
FirstOf(s, from, stop) ==
    CHOOSE p \in from..(Len(s) + 1) :
        /\ (p = Len(s) + 1 \/ s[p] \in stop)
        /\ \A q \in from..(p - 1) : s[q] \notin stop

\* a URL scheme: a letter, then letters, digits, "+", "-" and "."
IsScheme(s) ==
    /\ s # <<>>
    /\ InRange(LowerChar(s[1]), 97, 122)
    /\ \A i \in 1..Len(s) :
          InRange(LowerChar(s[i]), 97, 122) \/ InRange(s[i], 48, 57) \/ s[i] \in {43, 45, 46}

\* _domain: urlparse(u).netloc.lower(), the part between "//" and the next
\* "/", "?" or "#", after the scheme if there is one
Domain(u) ==
    LET colon == FirstOf(u, 1, {58})
        rest == IF colon <= Len(u) /\ IsScheme(SubSeq(u, 1, colon - 1))
                THEN SubSeq(u, colon + 1, Len(u)) ELSE u
    IN  IF Len(rest) >= 2 /\ rest[1] = 47 /\ rest[2] = 47
        THEN Lower(SubSeq(rest, 3, FirstOf(rest, 3, {47, 63, 35}) - 1))
        ELSE <<>>

\* the decimal digits of a natural number
RECURSIVE DigitsOf(_)
DigitsOf(n) == IF n < 10 THEN <<48 + n>> ELSE Append(DigitsOf(n \div 10), 48 + (n % 10))

\* f"{round(x, 3):.3f}" for x >= 0
Fixed3(x) ==
    LET m == Round(x, 3).n * (1000 \div Round(x, 3).d)
        frac == DigitsOf(1000 + (m % 1000))
    IN  DigitsOf(m \div 1000) \o <<46>> \o Tail(frac)

\* _geo_tile
GeoTile(lat, lng) ==
    IF lat = PyNone \/ lng = PyNone THEN <<>>
    ELSE Fixed3(lat.v) \o <<44>> \o Fixed3(lng.v)

\* a or b of two strings
OrElse(a, b) == IF a # <<>> THEN a ELSE b

\* the key of an item (lines 110-114)
DedupKey(it) ==
    Slug(it.name) \o <<124>> \o
        OrElse(Last4Digits(it.phone), OrElse(Domain(it.website), GeoTile(it.lat, it.lng)))

\* d.get(k, 0) of a number
GetOr0(x) == IF x = Missing THEN Num(QInt(0)) ELSE x

\* x == y and x > y of Python for numbers and None; > raises TypeError when
\* one side is None
PyEq(x, y) == x = y
PyGt(x, y) ==
    IF x = PyNone \/ y = PyNone THEN "TypeError"
    ELSE IF QLt(y.v, x.v) THEN "True" ELSE "False"

\* (b1, b2) > (a1, a2) of Python: the first pair of elements that differ
\* decides
PairGreater(b1, b2, a1, a2) ==
    IF ~PyEq(b1, a1) THEN PyGt(b1, a1)
    ELSE IF ~PyEq(b2, a2) THEN PyGt(b2, a2)
    ELSE "False"

\* the later item b replaces the earlier one a when its pair is greater
\* (line 120)
Stronger(b, a) ==
    PairGreater(GetOr0(b.reviews_count), GetOr0(b.rating),
                GetOr0(a.reviews_count), GetOr0(a.rating))

\* the position in the dict (in insertion order) of the key, or 0
Position(keys, key) ==
    IF \E i \in 1..Len(keys) : keys[i] = key
    THEN CHOOSE i \in 1..Len(keys) : keys[i] = key ELSE 0

\* the loop of dedupe_places from item i on: buckets is the dict, as the
\* sequence of its keys and the sequence of its values; an exception ends it
RECURSIVE DedupeFrom(_, _, _, _)
DedupeFrom(items, i, keys, vals) ==
    IF i > Len(items) THEN [raised |-> FALSE, out |-> vals]
    ELSE LET it == items[i]
             key == DedupKey(it)
             p == Position(keys, key)
         IN  IF p = 0 THEN DedupeFrom(items, i + 1, Append(keys, key), Append(vals, it))
             ELSE LET gt == Stronger(it, vals[p])
                  IN  IF gt = "TypeError" THEN [raised |-> TRUE, out |-> <<>>]
                      ELSE DedupeFrom(items, i + 1, keys,
                                      IF gt = "True" THEN [vals EXCEPT ![p] = it] ELSE vals)

\* dedupe_places(items)
DedupePlaces(items) == DedupeFrom(items, 1, <<>>, <<>>)

\* dedupe_places is called, and called again on what it returned
DedupeCall(items) ==
    /\ places.pc = "idle"
    /\ LET r == DedupePlaces(items)
       IN  places' = [pc |-> IF r.raised THEN "raised" ELSE "returned",
                      items |-> items, out |-> r.out, again |-> <<>>]
    /\ UNCHANGED <<reportVars, clientVars>>

DedupeAgain ==
    /\ places.pc = "returned"
    /\ LET r == DedupePlaces(places.out)
       IN  places' = [places EXCEPT !.pc = IF r.raised THEN "raised again" ELSE "returned again",
                                    !.again = r.out]
    /\ UNCHANGED <<reportVars, clientVars>>

\* the caller is through with the list
DedupeDone ==
    /\ places.pc \in {"raised", "returned again", "raised again"}
    /\ places' = NoPlaces
    /\ UNCHANGED <<reportVars, clientVars>>

(***************************************************************************)
(* Properties of a single caller (Spec).                                   *)
(***************************************************************************)
InUnit(x) == QLe(QInt(0), x) /\ QLe(x, QInt(1))
InPercent(x) == QLe(QInt(0), x) /\ QLe(x, QInt(100))

\* C1: for every input text the human_style_score of the returned report
\* lies in [0, 100]: the sum of 50, the bonuses and the penalties is clamped.
C1_ScoreInRange ==
    \A t \in Threads : Done(t) => InPercent(result[t].human_style_score)

\* a report whose unclamped sum is above 100 and whose score is 100
C1_ClampedFromAbove ==
    \E t \in Threads :
        /\ Done(t)
        /\ QLt(QInt(100), loc[t].sc.base_score)
        /\ result[t].human_style_score = QInt(100)

\* a report whose unclamped sum is below 0 and whose score is 0
C1_ClampedFromBelow ==
    \E t \in Threads :
        /\ Done(t)
        /\ QLt(loc[t].sc.base_score, QInt(0))
        /\ result[t].human_style_score = QInt(0)

\* C2: for an empty or whitespace-only text the report has word, sentence
\* and paragraph counts 0 and every ratio and percentage equal to 0,
\* pct_short_lt20w among them.
C2_BlankAllZero ==
    \A t \in Threads :
        (Done(t) /\ Strip(text[t]) = <<>>) =>
            /\ result[t].word_count = 0
            /\ result[t].sentence_count = 0
            /\ result[t].paragraph_count = 0
            /\ result[t].avg_sentence_length = QInt(0)
            /\ result[t].paragraph_metrics.avg_len = QInt(0)
            /\ result[t].paragraph_metrics.std_len = QInt(0)
            /\ result[t].paragraph_metrics.pct_short_lt20w = QInt(0)
            /\ result[t].paragraph_metrics.pct_long_gt100w = QInt(0)
            /\ result[t].sentence_variety.start_hhi = QInt(0)
            /\ result[t].ttr = QInt(0)
            /\ result[t].sensory_ratio = QInt(0)
            /\ result[t].passive_ratio = QInt(0)
            /\ result[t].eeat_score = QInt(0)
            /\ result[t].info_gain_score = QInt(0)
            /\ result[t].fluff_density = QInt(0)

\* what the code returns for such a text: everything C2 lists is 0 except
\* pct_short_lt20w, which is 100 (the one length of `or [0]` is below 20)
C2_BlankAllZeroButShort ==
    \A t \in Threads :
        (Done(t) /\ Strip(text[t]) = <<>>) =>
            /\ result[t].word_count = 0
            /\ result[t].sentence_count = 0
            /\ result[t].paragraph_count = 0
            /\ result[t].avg_sentence_length = QInt(0)
            /\ result[t].paragraph_metrics.avg_len = QInt(0)
            /\ result[t].paragraph_metrics.std_len = QInt(0)
            /\ result[t].paragraph_metrics.pct_short_lt20w = QInt(100)
            /\ result[t].paragraph_metrics.pct_long_gt100w = QInt(0)
            /\ result[t].sentence_variety.start_hhi = QInt(0)
            /\ result[t].ttr = QInt(0)
            /\ result[t].sensory_ratio = QInt(0)
            /\ result[t].passive_ratio = QInt(0)
            /\ result[t].eeat_score = QInt(0)
            /\ result[t].info_gain_score = QInt(0)
            /\ result[t].fluff_density = QInt(0)

\* C3: for every input text sensory_ratio, eeat_score, info_gain_score,
\* pct_short_lt20w and pct_long_gt100w lie in [0, 100], ttr and start_hhi
\* lie in [0, 1], and fluff_density, which is reported unclamped, is not
\* negative.
C3_RatiosInRange ==
    \A t \in Threads :
        Done(t) =>
            /\ InPercent(result[t].sensory_ratio)
            /\ InPercent(result[t].eeat_score)
            /\ InPercent(result[t].info_gain_score)
            /\ InPercent(result[t].paragraph_metrics.pct_short_lt20w)
            /\ InPercent(result[t].paragraph_metrics.pct_long_gt100w)
            /\ InUnit(result[t].ttr)
            /\ InUnit(result[t].sentence_variety.start_hhi)
            /\ QLe(QInt(0), result[t].fluff_density)

\* a report with a repeated sentence start, start_hhi at 1, ttr strictly
\* inside (0, 1) and a fluff_density above 100
C3_AtTheEdges ==
    \E t \in Threads :
        /\ Done(t)
        /\ result[t].sentence_count >= 2
        /\ result[t].sentence_variety.start_hhi = QInt(1)
        /\ QLt(QInt(0), result[t].ttr) /\ QLt(result[t].ttr, QInt(1))
        /\ QLt(QInt(100), result[t].fluff_density)

\* C4: for every input text passive_ratio is a percentage in [0, 100], also
\* when one sentence holds several passive markers each followed by a word.
C4_PassiveInRange ==
    \A t \in Threads : Done(t) => InPercent(result[t].passive_ratio)

\* C6: quality_report is total: no call ends in a division by a zero word,
\* sentence, paragraph or sentence-start count, and a call that has run its
\* blocks returns a report of its text.
C6_NeverRaises ==
    \A t \in Threads :
        /\ pc[t] # "raised"
        /\ Done(t) => /\ result[t].char_count = Len(text[t])
                      /\ result[t].word_count = Len(loc[t].seg.words)

\* a report for a text that has characters but no word, no sentence, no
\* paragraph and no sentence start
C6_NothingToCount ==
    \E t \in Threads :
        /\ Done(t)
        /\ text[t] # <<>>
        /\ result[t].word_count = 0
        /\ result[t].sentence_count = 0
        /\ result[t].paragraph_count = 0
        /\ result[t].sentence_variety.start_top = <<>>

(***************************************************************************)
(* Concurrent callers (SpecConc): every thread calls quality_report on    *)
(* texts of ConcTexts, the blocks of the calls interleave.                 *)
(***************************************************************************)
\* a passive marker, an absolute word, a sensory term and a stopword in two
\* sentences
ShortReview ==
    <<1578, 1605, 32, 1580, 1605, 1610, 1593, 46, 32, 1591, 1575, 1586,
      1580, 32, 1580, 1583, 1575>>

\* a boilerplate phrase and a sensory term four times in a row
TemplateReview ==
    <<1605, 1606, 32, 1571, 1580, 1605, 1604, 32, 1605, 1591, 1575, 1593,
      1605, 32, 1591, 1575, 1586, 1580, 32, 1591, 1575, 1586, 1580, 32,
      1591, 1575, 1586, 1580, 32, 1591, 1575, 1586, 1580>>

ConcTexts == {<<>>, ShortReview, TemplateReview}

NextConc == \E t \in Threads : (\E txt \in ConcTexts : Call(t, txt)) \/ Step(t)

SpecConc == Init /\ [][NextConc]_vars

\* the report of a call that runs alone, from its first block to its last
AloneReport == [txt \in ConcTexts |-> QualityReport(txt, InitialTables)]

Running(t) == pc[t] \notin {"idle", "done", "raised"}

\* C5: quality_report is deterministic: two calls on the same text return
\* identical reports (metrics, start_top, repeated_phrases,
\* boilerplate_flags, tips and their order), whatever calls ran before or
\* between them.
C5_SameTextSameReport ==
    \A t, u \in Threads :
        (Done(t) /\ Done(u) /\ text[t] = text[u]) => result[t] = result[u]

\* two calls on one text with flags, repeated phrases and tips have returned
C5_TwoCallsOneText ==
    \E t, u \in Threads :
        /\ t # u /\ Done(t) /\ Done(u)
        /\ text[t] = text[u]
        /\ result[t].boilerplate_flags # <<>>
        /\ result[t].repeated_phrases # <<>>
        /\ result[t].tips # <<>>

\* C7: concurrent calls need no locking: no call writes the module-level
\* tables, and under every interleaving each call returns the report it
\* returns when it runs alone.
C7_AsWhenAlone ==
    /\ tables = InitialTables
    /\ \A t \in Threads : Done(t) => result[t] = AloneReport[text[t]]

\* a call has returned while a call on another text was between two blocks
C7_ReturnedWhileOtherRuns ==
    \E t, u \in Threads :
        /\ Done(t) /\ Running(u) /\ pc[u] # "segment"
        /\ text[t] # text[u]
        /\ text[t] # <<>> /\ text[u] # <<>>

(***************************************************************************)
(* Repeated phrases (SpecRepeat): texts of a few words, each followed by   *)
(* a space.                                                                *)
(***************************************************************************)
MaxRepeatLexemes == 7

\* a stopword, a sensory term, a Latin token with a capital
RepeatLexemes ==
    {<<1580, 1583, 1575, 32>>, <<1591, 1575, 1586, 1580, 32>>, <<72, 111, 116, 32>>}

RepeatTexts == Compose(RepeatLexemes, MaxRepeatLexemes)

NextRepeat == (\E txt \in RepeatTexts : Call(1, txt)) \/ Step(1)

SpecRepeat == Init /\ [][NextRepeat]_vars

\* how often word a is followed by word b in toks
PairCount(toks, a, b) ==
    Cardinality({i \in 1..(Len(toks) - 1) : toks[i] = a /\ toks[i + 1] = b})

Pairs(toks) == {<<toks[i], toks[i + 1]>> : i \in 1..(Len(toks) - 1)}

Phrase(a, b) == a \o <<SP>> \o b

\* the lowercased words of the text that are no stopwords
Kept(txt) == TokensWithoutStopwords(Words(txt), InitialTables)

MaxBoilerLexemes == 4
FillerLen == 30

\* FillerLen - 1 letters and a space
Filler == [i \in 1..FillerLen |-> IF i = FillerLen THEN SP ELSE 97]

\* the head of the first template, its tail alone and with a line break
\* after it, the filler, and the head of the fourth template with a line
\* break in it
BoilerLexemes ==
    {<<1605, 1606, 32, 1571, 1580, 1605, 1604, 32>>,
     <<1605, 1591, 1575, 1593, 1605>>,
     <<1605, 1591, 1575, 1593, 1605, 10>>,
     Filler,
     <<1575, 1604, 1582, 1610, 1575, 1585, 10, 1575, 1604, 1571, 1601, 1590, 1604, 32>>}

BoilerTexts == Compose(BoilerLexemes, MaxBoilerLexemes)

NextBoiler == (\E txt \in BoilerTexts : Call(1, txt)) \/ Step(1)

SpecBoiler == Init /\ [][NextBoiler]_vars

\* the end of the match of template k that starts at offset s of txt, or -1
TemplateEnd(k, txt, s) == MatchEnd(BOILERPLATE_PATTERNS[k], txt, s, TRUE)

\* txt[lo:hi] with its line breaks turned into spaces
Window(txt, lo, hi) ==
    [j \in 1..(hi - lo) |-> IF txt[lo + j] = NL THEN SP ELSE txt[lo + j]]

\* the flag is the template and the excerpt of the match of it at offset s
FlagOfMatchAt(f, txt, s) ==
    LET e == TemplateEnd(f.pattern, txt, s)
    IN  /\ e # -1
        /\ f.excerpt = Window(txt, Max2(0, s - PAD), Min2(Len(txt), e + PAD))

\* C9: whenever the text contains a phrase matching a boilerplate template,
\* boilerplate_flags has an entry for the template, and the excerpt of every
\* entry is a match of its template extended by at most 28 characters on
\* each side (cut at the start and at the end of the text), line breaks
\* replaced by spaces, so it contains the whole matched phrase.
C9_FlagsCoverMatches ==
    \A t \in Threads :
        Done(t) =>
            /\ \A k \in 1..Len(BOILERPLATE_PATTERNS) :
                  (\E s \in 0..Len(text[t]) : TemplateEnd(k, text[t], s) # -1) =>
                      \E i \in 1..Len(result[t].boilerplate_flags) :
                          result[t].boilerplate_flags[i].pattern = k
            /\ \A i \in 1..Len(result[t].boilerplate_flags) :
                  \E s \in 0..Len(text[t]) :
                      FlagOfMatchAt(result[t].boilerplate_flags[i], text[t], s)

\* a flag for a match that holds a line break and lies more than the pad
\* away from both ends of the text
C9_ExcerptCutOnBothSides ==
    \E t \in Threads :
        /\ Done(t)
        /\ \E i \in 1..Len(result[t].boilerplate_flags) :
              \E s \in (PAD + 1)..Len(text[t]) :
                  LET e == TemplateEnd(result[t].boilerplate_flags[i].pattern, text[t], s)
                  IN  /\ FlagOfMatchAt(result[t].boilerplate_flags[i], text[t], s)
                      /\ e + PAD < Len(text[t])
                      /\ \E j \in (s + 1)..e : text[t][j] = NL
                      /\ Len(result[t].boilerplate_flags[i].excerpt) = e - s + 2 * PAD

(***************************************************************************)
(* Sentence starts (SpecStarts): texts of up to MaxSentences sentences,    *)
(* each sentence one of StartSentences, a new one only after the ones      *)
(* listed before it (the texts that differ by a renaming of the starts     *)
(* are taken once).                                                        *)
(***************************************************************************)
MaxSentences == 7

\* "a x. ", "b. ", "c! ", "d. ", "e. ", "f. ", "!! " (no word), "g" and a
\* line break, "h. "
StartSentences ==
    <<<<97, 32, 120, 46, 32>>,
      <<98, 46, 32>>,
      <<99, 33, 32>>,
      <<100, 46, 32>>,
      <<101, 46, 32>>,
      <<102, 46, 32>>,
      <<33, 33, 32>>,
      <<103, 10>>,
      <<104, 46, 32>>>>

MaxOf(s) == IF s = <<>> THEN 0 ELSE CHOOSE m \in Range(s) : \A x \in Range(s) : x <= m

\* the sequences of at most n sentence numbers in which number k + 1 comes
\* only after number k
RECURSIVE GrowTo(_)
GrowTo(n) ==
    IF n = 0 THEN {<<>>}
    ELSE LET shorter == GrowTo(n - 1)
         IN  shorter \cup
             UNION {{Append(s, k) : k \in 1..Min2(Len(StartSentences), 1 + MaxOf(s))} :
                        s \in {p \in shorter : Len(p) = n - 1}}

StartTexts ==
    {Concat([i \in 1..Len(s) |-> StartSentences[s[i]]]) : s \in GrowTo(MaxSentences)}

NextStarts == (\E txt \in StartTexts : Call(1, txt)) \/ Step(1)

SpecStarts == Init /\ [][NextStarts]_vars

\* the lowercased first word of every sentence of txt that has a word
FirstWords(txt) ==
    LET sents == SplitSentences(txt)
        withWord == SelectSeq(sents, LAMBDA s : Words(s) # <<>>)
    IN  [i \in 1..Len(withWord) |-> Lower(Words(withWord[i])[1])]

TimesIn(ws, w) == Cardinality({i \in 1..Len(ws) : ws[i] = w})

\* every sentence has a first word, the same for all
SameStart(txt) ==
    /\ FirstWords(txt) # <<>>
    /\ Len(FirstWords(txt)) = Len(SplitSentences(txt))
    /\ Cardinality(Range(FirstWords(txt))) = 1

\* k or more distinct starts, each as often as the others
EvenStarts(txt, k) ==
    /\ Cardinality(Range(FirstWords(txt))) >= k
    /\ \A v, w \in Range(FirstWords(txt)) :
          TimesIn(FirstWords(txt), v) = TimesIn(FirstWords(txt), w)

\* C10: a text in which every sentence starts with the same token has
\* start_hhi = 1.0, and a text whose sentences use 5 or more distinct
\* starts, each equally often, has start_hhi below 0.3.
C10_StartConcentration ==
    \A t \in Threads :
        Done(t) =>
            /\ SameStart(text[t]) => result[t].sentence_variety.start_hhi = QInt(1)
            /\ EvenStarts(text[t], 5) =>
                  QLt(result[t].sentence_variety.start_hhi, Q(3, 10))

\* a report for six distinct starts, once each, next to a sentence without
\* a word: five of them are counted
C10_SixEvenStarts ==
    \E t \in Threads :
        /\ Done(t)
        /\ EvenStarts(text[t], 6)
        /\ Len(FirstWords(text[t])) < result[t].sentence_count
        /\ Len(result[t].sentence_variety.start_top) = TOP_STARTS
        /\ QLt(result[t].sentence_variety.start_hhi, Q(3, 10))

\* a report for three or more sentences that all start with one token
C10_OneStartThrice ==
    \E t \in Threads :
        /\ Done(t)
        /\ SameStart(text[t])
        /\ result[t].sentence_count >= 3
        /\ result[t].sentence_variety.start_hhi = QInt(1)

(***************************************************************************)
(* A text and the same text with a phrase appended: the caller analyses a *)
(* text that has no sensory term, then the text with a sensory phrase put *)
(* after it, and keeps both dicts.                                         *)
(***************************************************************************)
\* n copies of s, one after the other
Repeat(s, n) ==
    SubSeq([i \in 1..(n * Len(s)) |-> s[((i - 1) % Len(s)) + 1]], 1, n * Len(s))

MinWords == 50

\* MinWords words in one sentence, in MinWords sentences, on MinWords lines
PlainBase == Repeat(<<97, 98, 32>>, MinWords)
SentenceBase == Repeat(<<97, 98, 46, 32>>, MinWords)
LineBase == Repeat(<<97, 98, NL>>, MinWords)

\* MinWords words, the last one ending the text
TightBase == Repeat(<<97, 98, 32>>, MinWords - 1) \o <<97, 98>>

SensoryFreeBases == {PlainBase, SentenceBase, LineBase, TightBase}

\* one sensory term
OneTerm == <<1591, 1575, 1586, 1580>>

\* three sensory terms among five words
FivePhrase ==
    <<1602, 1608, 1575, 1605, 32, 1605, 1602, 1585, 1605, 1588, 32, 1608,
      1585, 1575, 1574, 1581, 1577, 32, 1586, 1576, 1583, 1577, 32, 1605,
      1581, 1605, 1617, 1585, 1577>>

\* a sensory term, three sensory terms among five words, a sensory term
\* between other words, a sensory term after a space and before a line break
SensoryPhrases ==
    {OneTerm, FivePhrase,
     <<99, 100, 32, 1591, 1575, 1586, 1580, 32, 101, 102, 46>>,
     <<SP, 1581, 1575, 1585, NL>>}

\* thread 1 analyses a text; once it has its dict, thread 2 analyses the
\* text with a phrase appended
NextSensory ==
    \/ \E b \in SensoryFreeBases : pc[2] = "idle" /\ Call(1, b)
    \/ pc[2] = "idle" /\ Step(1)
    \/ Done(1) /\ \E p \in SensoryPhrases : Call(2, text[1] \o p)
    \/ Done(1) /\ Step(2)

SpecSensory == Init /\ [][NextSensory]_vars

\* the number of sensory tokens among words, as line 102 counts them
SensoryTokens(words) ==
    CountIn([i \in 1..Len(words) |-> Lower(words[i])], SENSORY_TERMS)

\* thread 1 holds the dict of a text of MinWords words or more without a
\* sensory token, thread 2 the dict of that text with the phrase p appended
Appended(p) ==
    /\ Done(1) /\ Done(2)
    /\ text[2] = text[1] \o p
    /\ result[1].word_count >= MinWords
    /\ SensoryTokens(loc[1].seg.words) = 0

\* the reported sensory_ratio went from 0 to a positive value
RaisedFromZero ==
    /\ result[1].sensory_ratio = QInt(0)
    /\ QLt(result[1].sensory_ratio, result[2].sensory_ratio)

\* C11: appending a phrase that holds a token of the sensory lexicon to a
\* text of 50 words or more without a sensory token raises the reported
\* sensory_ratio from 0 to a positive value.
C11_AppendRaisesReported ==
    \A p \in SensoryPhrases :
        (SensoryTokens(Words(p)) >= 1 /\ Appended(p)) => RaisedFromZero

\* the tokens of the phrase p are tokens of the text with p appended: no
\* token of p is fused with the last word of the text
TokensKept(p) == loc[2].seg.words = loc[1].seg.words \o Words(p)

\* C11 as amended: the same when the tokens of the phrase stay tokens of the
\* result and the result has fewer than 20000 words for each sensory token
\* of the phrase, so that round(100 * hits / words, 2) is 0.01 or more.
C11_SeparateAppendRaises ==
    \A p \in SensoryPhrases :
        (/\ SensoryTokens(Words(p)) >= 1
         /\ Appended(p)
         /\ TokensKept(p)
         /\ result[2].word_count < 20000 * SensoryTokens(Words(p)))
            => RaisedFromZero

\* the five-word phrase after MinWords words in one sentence: three hits
\* among MinWords + 5 words
C11_FivePhraseAppended ==
    /\ Appended(FivePhrase) /\ TokensKept(FivePhrase)
    /\ text[1] = PlainBase
    /\ result[2].sensory_ratio = Round(Q(300, MinWords + 5), 2)

\* the one-term phrase fused with the last word of the text
C11_TermFusedWithLastWord ==
    /\ Appended(OneTerm) /\ ~TokensKept(OneTerm)
    /\ result[2].sensory_ratio = QInt(0)

(***************************************************************************)
(* Articles with boilerplate phrases in different places (SpecArticle):   *)
(* texts made of a phrase of the first template, a phrase of the fourth,  *)
(* a plain word and a line break.                                          *)
(***************************************************************************)
MaxArticleLexemes == 4

\* a phrase the first template matches and a space
FirstTemplatePhrase ==
    <<1605, 1606, 32, 1571, 1580, 1605, 1604, 32, 1605, 1591, 1575, 1593,
      1605, 32>>

\* a phrase the fourth template matches: its two words and a space
FourthTemplatePhrase ==
    <<1575, 1604, 1582, 1610, 1575, 1585, 32, 1575, 1604, 1571, 1601, 1590,
      1604, 32>>

ArticleLexemes ==
    {FirstTemplatePhrase, FourthTemplatePhrase, <<97, 98, 32>>, <<NL>>}

ArticleTexts == Compose(ArticleLexemes, MaxArticleLexemes)

NextArticle == (\E txt \in ArticleTexts : Call(1, txt)) \/ Step(1)

SpecArticle == Init /\ [][NextArticle]_vars

\* txt[a:b], taken alone, is matched from its start to its end by template k
IsPhraseOf(k, txt, a, b) ==
    MatchEnd(BOILERPLATE_PATTERNS[k], Slice(txt, a, b), 0, TRUE) = b - a

\* the <<k, a, b>> with txt[a:b] a phrase of template k
Occurrences(txt) ==
    UNION {{<<ka[1], ka[2], b>> :
               b \in {x \in (ka[2] + 1)..Len(txt) : IsPhraseOf(ka[1], txt, ka[2], x)}} :
           ka \in {y \in (1..Len(BOILERPLATE_PATTERNS)) \X (0..Len(txt)) :
                      TemplateEnd(y[1], txt, y[2]) # -1}}

\* two occurrences of template-matching text, one after the other
TwoPhrases(txt) ==
    \E o1, o2 \in Occurrences(txt) : o1[3] <= o2[2]

\* two occurrences of different templates, or of one template with no match
\* of it that starts at or before the first and runs into the second
TwoSeparatePhrases(txt) ==
    \E o1, o2 \in Occurrences(txt) :
        /\ o1[3] <= o2[2]
        /\ \/ o1[1] # o2[1]
           \/ \A s \in 0..o1[2] : TemplateEnd(o1[1], txt, s) <= o2[2]

\* sensory_ratio == 0, two flags or more, fluff_density > 0
TwoFlagsAndFluff(r) ==
    /\ r.sensory_ratio = QInt(0)
    /\ Len(r.boilerplate_flags) >= 2
    /\ QLt(QInt(0), r.fluff_density)

\* C12: for an article without sensory vocabulary that holds two boilerplate
\* phrases, wherever they are placed, the report has sensory_ratio == 0, at
\* least two boilerplate flags and fluff_density > 0.
C12_TwoPhrasesTwoFlags ==
    \A t \in Threads :
        (Done(t) /\ SensoryTokens(loc[t].seg.words) = 0 /\ TwoPhrases(text[t]))
            => TwoFlagsAndFluff(result[t])

\* C12 as amended: the same for two phrases of different templates, or of
\* one template when no match of it begun at or before the first phrase
\* runs into the second.
C12_SeparatePhrasesTwoFlags ==
    \A t \in Threads :
        (Done(t) /\ SensoryTokens(loc[t].seg.words) = 0
                 /\ TwoSeparatePhrases(text[t]))
            => TwoFlagsAndFluff(result[t])

\* two phrases of the first template on two lines, flagged twice
C12_SameTemplateTwoLines ==
    \E t \in Threads :
        /\ Done(t)
        /\ text[t] = FirstTemplatePhrase \o <<NL>> \o FirstTemplatePhrase
        /\ TwoSeparatePhrases(text[t])
        /\ Len(result[t].boilerplate_flags) = 2
        /\ result[t].boilerplate_flags[1].pattern = result[t].boilerplate_flags[2].pattern

\* two phrases of the first template on one line, flagged once
C12_SameTemplateOneLine ==
    \E t \in Threads :
        /\ Done(t)
        /\ text[t] = FirstTemplatePhrase \o FirstTemplatePhrase
        /\ TwoPhrases(text[t])
        /\ Len(result[t].boilerplate_flags) = 1

(***************************************************************************)
(* The composite score (SpecScore): the texts of Spec and texts that put  *)
(* the terms of the score on both sides of their caps.                     *)
(***************************************************************************)
WideWords == 200

\* n different two-letter words from word number first on, each followed
\* by a space
DistinctWordsFrom(first, n) ==
    SubSeq([j \in 1..(3 * n) |->
               LET w == first + ((j - 1) \div 3)
                   k == (j - 1) % 3
               IN  IF k = 0 THEN 97 + (w \div 26)
                   ELSE IF k = 1 THEN 97 + (w % 26) ELSE SP],
           1, 3 * n)

DistinctWords(n) == DistinctWordsFrom(0, n)

\* one sentence of LONG_SENT - 1, LONG_SENT and LONG_SENT + 1 different
\* words, and two sentences of LONG_SENT and LONG_SENT + 1 words
EdgeSentences ==
    {DistinctWords(n) : n \in (LONG_SENT - 1)..(LONG_SENT + 1)}
        \cup {DistinctWords(LONG_SENT) \o <<DOT, SP>>
                \o DistinctWordsFrom(LONG_SENT, LONG_SENT + 1)}

\* three sentences with three starts; six with six; four sentences, one of
\* them with the passive marker
StartsAndPassive ==
    {<<97, DOT, SP, 98, DOT, SP, 99, DOT>>,
     <<97, DOT, SP, 98, DOT, SP, 99, DOT, SP, 100, DOT, SP, 101, DOT, SP, 102, DOT>>,
     <<1578, 1605, 32, 120, DOT, SP, 98, DOT, SP, 99, DOT, SP, 100, DOT>>}

\* an absolute word and WideWords different words: one fluff unit in more
\* than 200 words
WideText == <<1580, 1605, 1610, 1593, 32>> \o DistinctWords(WideWords)

ScoreTexts == Texts \cup EdgeSentences \cup StartsAndPassive \cup {WideText}

NextScore == (\E txt \in ScoreTexts : Call(1, txt)) \/ Step(1)

SpecScore == Init /\ [][NextScore]_vars

\* the score block of thread t has run
Scored(t) == pc[t] \in {"return", "done"}

\* the formula of the claim over the locals of thread t, with min and max
\* as the claim writes them
ClaimedScore(t) ==
    LET f == loc[t]
        bonus ==
            QAdd(QMin(Q(f.lex.sensory_ratio.n, f.lex.sensory_ratio.d * 2), QInt(20)),
            QAdd(QMin(QMul(f.sig.ttr, QInt(40)), QInt(20)),
                 QMin(Q(f.sig.info_gain_score.n, f.sig.info_gain_score.d * 5), QInt(20))))
        penalty ==
            QAdd(QMin(QMax(QInt(0), QMul(QSub(f.st.start_hhi, Q(2, 10)), QInt(200))),
                      QInt(40)),
            QAdd(QMin(f.pat.passive_ratio, QInt(30)),
            QAdd(QMin(f.sc.fluff_density, QInt(30)),
                 IF QLt(QInt(28), f.st.avg_sent) THEN QInt(10) ELSE QInt(0))))
    IN  QMax(QInt(0), QMin(QInt(100), QSub(QAdd(QInt(50), bonus), penalty)))

\* C13: human_style_score is clamp(50 + min(sensory_ratio/2, 20)
\* + min(ttr*40, 20) + min(info_gain_score/5, 20)
\* - min(max(0, (start_hhi-0.2)*200), 40) - min(passive_ratio, 30)
\* - min(fluff_density, 30) - (10 if avg_sentence_length > 28 else 0), 0, 100)
\* for the metric values of every call; the long-sentence penalty applies
\* only above 28.
C13_ScoreFormula ==
    \A t \in Threads :
        Scored(t) => loc[t].sc.human_style_score = ClaimedScore(t)

\* a sentence of exactly 28 words: the score is the formula without the
\* long-sentence penalty
C13_NoPenaltyAtTwentyEight ==
    \E t \in Threads :
        /\ Done(t)
        /\ loc[t].st.avg_sent = QInt(28)
        /\ loc[t].sc.human_style_score = ClaimedScore(t)
        /\ loc[t].sc.human_style_score = QInt(30)

\* an average of 28.5 words: the penalty applies
C13_PenaltyAboveTwentyEight ==
    \E t \in Threads :
        /\ Done(t)
        /\ loc[t].st.avg_sent = Q(57, 2)
        /\ loc[t].sc.human_style_score = ClaimedScore(t)
        /\ loc[t].sc.human_style_score = QInt(20)

\* every penalty at its cap: 40 + 30 + 30
C13_PenaltiesAtTheirCaps ==
    \E t \in Threads :
        /\ Done(t)
        /\ QLt(Q(4, 10), loc[t].st.start_hhi)
        /\ QLt(QInt(30), loc[t].pat.passive_ratio)
        /\ QLt(QInt(30), loc[t].sc.fluff_density)
        /\ loc[t].sc.human_style_score = ClaimedScore(t)

\* every penalty under its cap and above 0
C13_PenaltiesUnderTheirCaps ==
    \E t \in Threads :
        /\ Done(t)
        /\ QLt(Q(2, 10), loc[t].st.start_hhi) /\ QLt(loc[t].st.start_hhi, Q(4, 10))
        /\ QLt(QInt(0), loc[t].pat.passive_ratio) /\ QLt(loc[t].pat.passive_ratio, QInt(30))
        /\ loc[t].sc.human_style_score = ClaimedScore(t)

\* one fluff unit in 201 words: a fluff penalty of 25
C13_FluffUnderItsCap ==
    \E t \in Threads :
        /\ Done(t)
        /\ loc[t].sc.fluff_density = QInt(25)
        /\ loc[t].sc.human_style_score = ClaimedScore(t)

(***************************************************************************)
(* Fluff density (SpecFluff): an absolute word, a template phrase or a    *)
(* repeated word in front of texts of 44 to 150 words.                     *)
(***************************************************************************)
MinFluffWords == 44
MaxFluffWords == 56

\* the numbers of words that follow the head of the text
FluffWordCounts == (MinFluffWords..MaxFluffWords) \cup {74, 98, 99, 100, 149}

\* an absolute word and n different words; a phrase of the first template
\* and 74 different words; 49 and 75 times the same word
FluffTexts ==
    {<<1580, 1605, 1610, 1593, 32>> \o DistinctWords(n) : n \in FluffWordCounts}
        \cup {FirstTemplatePhrase \o DistinctWords(74),
              Repeat(<<97, 98, 32>>, 49), Repeat(<<97, 98, 32>>, 75)}

NextFluff == (\E txt \in FluffTexts : Call(1, txt)) \/ Step(1)

SpecFluff == Init /\ [][NextFluff]_vars

\* boilerplate_match_count + absolutes_count + the sum over the flagged
\* n-grams of max(0, count - 2), from the locals of thread t
ClaimedFluffUnits(t) ==
    Len(loc[t].pat.boiler_flags) + loc[t].sig.abs_count
        + SumSeq([i \in 1..Len(loc[t].lex.repeated) |->
                     Max2(0, loc[t].lex.repeated[i][2] - 2)])

\* C14: fluff_density is 100 * (boilerplate matches + absolutes + sum over
\* flagged n-grams of max(0, count - 2)) / max(1, word_count / 50) with the
\* exact quotient word_count / 50 (1.5 for 75 words).
C14_FluffOverExactQuotient ==
    \A t \in Threads :
        Scored(t) =>
            loc[t].sc.fluff_density
                = Q(100 * ClaimedFluffUnits(t) * 50, Max2(50, Len(loc[t].seg.words)))

\* C14 as amended: the same with the whole quotient word_count // 50 (1 for
\* 75 words) under the max.
C14_FluffOverWholeQuotient ==
    \A t \in Threads :
        Scored(t) =>
            loc[t].sc.fluff_density
                = Q(100 * ClaimedFluffUnits(t), Max2(1, Len(loc[t].seg.words) \div 50))

\* one fluff unit in 75 words: 100, where the exact quotient gives 66.67
C14_OneUnitInSeventyFiveWords ==
    \E t \in Threads :
        /\ Done(t)
        /\ Len(loc[t].seg.words) = 75
        /\ ClaimedFluffUnits(t) = 1
        /\ loc[t].sc.fluff_density = QInt(100)
        /\ result[t].fluff_density = QInt(100)

(***************************************************************************)
(* Sentences (SpecSentences): texts made of a word, a space, a full stop, *)
(* an Arabic question mark and a line break.                               *)
(***************************************************************************)
MaxSentenceLexemes == 4

SentenceLexemes == {<<97, 98>>, <<SP>>, <<DOT>>, <<ARQ>>, <<NL>>}

SentenceTexts == Compose(SentenceLexemes, MaxSentenceLexemes)

NextSentences == (\E txt \in SentenceTexts : Call(1, txt)) \/ Step(1)

SpecSentences == Init /\ [][NextSentences]_vars

\* the places of txt where a split falls when every run of terminators ends
\* a segment and every line break separates two: after the last character
\* of a run of terminators, before and after a line break
SplitPlaces(txt) ==
    {i \in 1..(Len(txt) - 1) :
        \/ (IsTerminator(txt[i]) /\ ~IsTerminator(txt[i + 1]))
        \/ txt[i] = NL
        \/ txt[i + 1] = NL}

\* the number of segments between these places that hold something else
\* than whitespace
SplitSegments(txt) ==
    LET cuts == SplitPlaces(txt) \cup {0}
        NextCut(c) ==
            IF \E d \in cuts : d > c
            THEN CHOOSE d \in cuts : d > c /\ \A x \in cuts : x > c => d <= x
            ELSE Len(txt)
    IN  Cardinality({c \in cuts : \E j \in (c + 1)..NextCut(c) : ~IsSpace(txt[j])})

\* C15: the sentences are the non-empty trimmed segments obtained by
\* splitting at every run of '.', '!' or the Arabic question mark and at
\* every line break, and sentence_count is their number: two lines are two
\* sentences, and a terminator splits whether whitespace follows it or not.
C15_SplitAtTerminatorsAndNewlines ==
    \A t \in Threads :
        Done(t) => result[t].sentence_count = SplitSegments(text[t])

\* two lines without a terminator are one sentence
C15_TwoLinesOneSentence ==
    \E t \in Threads :
        /\ Done(t)
        /\ text[t] = <<97, 98, NL, 97, 98>>
        /\ SplitSegments(text[t]) = 2
        /\ result[t].sentence_count = 1

\* a terminator between two words with no whitespace after it does not split
C15_NoSplitWithoutWhitespace ==
    \E t \in Threads :
        /\ Done(t)
        /\ text[t] = <<97, 98, DOT, 97, 98>>
        /\ SplitSegments(text[t]) = 2
        /\ result[t].sentence_count = 1

\* the count the code gives: the pieces between the runs of whitespace that
\* follow a terminator, line breaks counting as whitespace
C15_SplitAtWhitespaceAfterTerminator ==
    \A t \in Threads :
        Done(t) =>
            result[t].sentence_count
                = Cardinality({i \in 1..Len(Normalize(text[t])) :
                      LET s == Normalize(text[t])
                      IN  i = 1 \/ (IsSpace(s[i - 1]) /\ i > 2 /\ IsTerminator(s[i - 2]))})

(***************************************************************************)
(* Tokens (SpecTokens): texts made of a Latin letter, an Arabic letter, a *)
(* digit, a space, a Latin comma and the Arabic comma, semicolon and      *)
(* question mark.                                                          *)
(***************************************************************************)
MaxTokenLexemes == 3

\* U+060C, U+061B and U+061F: the Arabic comma, semicolon and question mark
ArabicPunctuation == {1548, 1563, ARQ}

TokenLexemes == {<<97>>, <<1605>>, <<55>>, <<SP>>, <<44>>} \cup {<<c>> : c \in ArabicPunctuation}

TokenTexts == Compose(TokenLexemes, MaxTokenLexemes)

NextTokens == (\E txt \in TokenTexts : Call(1, txt)) \/ Step(1)

SpecTokens == Init /\ [][NextTokens]_vars

IsArabicPunctuation(c) == c \in ArabicPunctuation

\* the maximal runs of letters and digits of txt, punctuation left out
LetterDigitRuns(txt) ==
    RunsOf(txt, [i \in 1..Len(txt) |-> IsTokenChar(txt[i]) /\ ~IsArabicPunctuation(txt[i])])

\* C16: every counted token is a maximal run of Latin letters, Arabic
\* letters or digits; punctuation, the Arabic comma, semicolon and question
\* mark included, is never part of a token and never counts as a word, so a
\* text made only of punctuation has word_count 0
C16_TokensHoldNoPunctuation ==
    \A t \in Threads :
        Done(t) =>
            /\ result[t].word_count = Len(LetterDigitRuns(text[t]))
            /\ (\A i \in 1..Len(text[t]) : ~IsTokenChar(text[t][i]) \/ IsArabicPunctuation(text[t][i]))
                   => result[t].word_count = 0

\* the Arabic question mark alone is counted as one word
C16_QuestionMarkIsAWord ==
    \E t \in Threads :
        /\ Done(t)
        /\ text[t] = <<ARQ>>
        /\ result[t].word_count = 1

\* an Arabic comma between two letters joins them into one token
C16_CommaJoinsTwoWords ==
    \E t \in Threads :
        /\ Done(t)
        /\ text[t] = <<97, 1548, 97>>
        /\ result[t].word_count = 1

\* what _words counts: the maximal runs of characters of the class
\* [A-Za-z0-9\u0600-\u06FF], the Arabic punctuation included
C16_TokensAreRunsOfTheClass ==
    \A t \in Threads :
        Done(t) =>
            result[t].word_count = Len(RunsOf(text[t], [i \in 1..Len(text[t]) |-> IsTokenChar(text[t][i])]))

(***************************************************************************)
(* The top starts and their concentration index (SpecStarts).              *)
(***************************************************************************)
\* the tokens of the pairs of start_top
TopTokens(top) == {top[i][1] : i \in 1..Len(top)}

\* the sum of (count / total)^2 over the pairs of top
IndexOver(top, total) ==
    IF total = 0 THEN QInt(0)
    ELSE Q(SumSeq([i \in 1..Len(top) |-> top[i][2] * top[i][2]]), total * total)

\* the sum of (count / total)^2 over every distinct start: each start of
\* count c is met c times in the list and adds c each time
FullIndex(fw) ==
    IF fw = <<>> THEN QInt(0)
    ELSE Q(SumSeq([i \in 1..Len(fw) |-> TimesIn(fw, fw[i])]), Len(fw) * Len(fw))

\* C17: start_top holds at most 5 (token, count) pairs, the most frequent
\* lowercased first tokens of the sentences in non-increasing count order;
\* start_hhi is the sum over exactly those pairs of (count / number of
\* sentence starts)^2 (the report gives it rounded to three places); starts
\* outside the top 5 add nothing, so start_hhi is at most the index of the
\* full distribution and at most 1
C17_TopFiveStartsIndex ==
    \A t \in Threads :
        Done(t) =>
            LET fw == FirstWords(text[t])
                top == result[t].sentence_variety.start_top
                hhi == loc[t].st.start_hhi
            IN  /\ Len(top) = Min2(5, Cardinality(Range(fw)))
                /\ Cardinality(TopTokens(top)) = Len(top)
                /\ \A i \in 1..Len(top) :
                      /\ top[i][1] \in Range(fw)
                      /\ top[i][2] = TimesIn(fw, top[i][1])
                /\ \A i, j \in 1..Len(top) : i < j => top[i][2] >= top[j][2]
                /\ \A w \in Range(fw) \ TopTokens(top) :
                      \A i \in 1..Len(top) : TimesIn(fw, w) <= top[i][2]
                /\ hhi = IndexOver(top, Len(fw))
                /\ result[t].sentence_variety.start_hhi = Round(hhi, 3)
                /\ QLe(hhi, FullIndex(fw))
                /\ Cardinality(Range(fw)) > 5 => QLt(hhi, FullIndex(fw))
                /\ QLe(hhi, QInt(1))
                /\ QLe(result[t].sentence_variety.start_hhi, QInt(1))

\* a report for six distinct starts, one of them twice: the sixth start is
\* left out of start_top and of the index
C17_SixthStartLeftOut ==
    \E t \in Threads :
        /\ Done(t)
        /\ Cardinality(Range(FirstWords(text[t]))) = 6
        /\ Len(FirstWords(text[t])) = 7
        /\ Len(result[t].sentence_variety.start_top) = 5
        /\ result[t].sentence_variety.start_top[1][2] = 2
        /\ loc[t].st.start_hhi = Q(8, 49)
        /\ FullIndex(FirstWords(text[t])) = Q(9, 49)

\* a report whose index is that of the full distribution: three starts
C17_ThreeStartsFullIndex ==
    \E t \in Threads :
        /\ Done(t)
        /\ Cardinality(Range(FirstWords(text[t]))) = 3
        /\ Len(FirstWords(text[t])) = 4
        /\ loc[t].st.start_hhi = FullIndex(FirstWords(text[t]))
        /\ loc[t].st.start_hhi = Q(6, 16)

(***************************************************************************)
(* Flagged phrases (SpecPhrases): texts of a few words, and texts in which *)
(* a cycle of different words, the last one long, is written three times   *)
(* and followed by its first word.                                         *)
(***************************************************************************)
MaxPhraseLexemes == 6
MaxCycle == 31

\* a stopword and two words
PhraseLexemes == {<<1580, 1583, 1575, 32>>, <<97, 98, 32>>, <<99, 100, 32>>}

\* k - 1 words of two letters and one of eight, three times, then "aa"
CycleText(k) ==
    Repeat(DistinctWords(k - 1) \o <<122, 122, 122, 122, 122, 122, 122, 122, SP>>, 3) \o <<97, 97>>

PhraseTexts ==
    Compose(PhraseLexemes, MaxPhraseLexemes) \cup {CycleText(k) : k \in 2..MaxCycle}

NextPhrases == (\E txt \in PhraseTexts : Call(1, txt)) \/ Step(1)

SpecPhrases == Init /\ [][NextPhrases]_vars

\* the runs of n adjacent tokens, and how often a run occurs
Windows(toks, n) == {SubSeq(toks, i, i + n - 1) : i \in 1..(Len(toks) - n + 1)}

WindowCount(toks, g) ==
    Cardinality({i \in 1..(Len(toks) - Len(g) + 1) : SubSeq(toks, i, i + Len(g) - 1) = g})

\* the n-grams of toks that occur min times or more
Frequent(toks, n, min) == {g \in Windows(toks, n) : WindowCount(toks, g) >= min}

\* every bigram occurring 3 times or more and every trigram occurring
\* twice or more, each with its count
AllFlagged(toks) ==
    {<<JoinSpace(g), WindowCount(toks, g)>> : g \in Frequent(toks, 2, 3) \cup Frequent(toks, 3, 2)}

\* phrase a is ahead of phrase b: more frequent, or as frequent and longer
Ahead(a, b) == a[2] > b[2] \/ (a[2] = b[2] /\ Len(a[1]) > Len(b[1]))

\* rep is the first 15 (at most) of all in that order: no entry twice, none
\* that is not in all, none behind a later one, and nothing of all left
\* out that is ahead of an entry
FirstFifteenOf(rep, all) ==
    /\ Len(rep) = Min2(15, Cardinality(all))
    /\ \A i \in 1..Len(rep) : rep[i] \in all
    /\ \A i, j \in 1..Len(rep) : i < j => rep[i] # rep[j] /\ ~Ahead(rep[j], rep[i])
    /\ \A p \in all : (\A i \in 1..Len(rep) : rep[i] # p) => \A i \in 1..Len(rep) : ~Ahead(p, rep[i])

\* C18 as stated: with n-grams built from the token stream after stopword
\* removal, every bigram occurring at least 3 times and every trigram
\* occurring at least 2 times is flagged, and repeated_phrases is the first
\* 15 (at most) of all the flagged phrases by descending frequency and then
\* descending phrase length, whatever the number of flagged n-grams
C18_FirstFifteenOfAllFlagged ==
    \A t \in Threads :
        Done(t) => FirstFifteenOf(result[t].repeated_phrases, AllFlagged(Kept(text[t])))

\* at most NGRAM_POOL bigrams and at most NGRAM_POOL trigrams are frequent
\* enough to be flagged
WithinPool(toks) ==
    /\ Cardinality(Frequent(toks, 2, 3)) <= NGRAM_POOL
    /\ Cardinality(Frequent(toks, 3, 2)) <= NGRAM_POOL

\* C18 amended: the same, as long as no more than 30 distinct bigrams and
\* no more than 30 distinct trigrams are frequent enough to be flagged
C18_FirstFifteenWithinPool ==
    \A t \in Threads :
        Done(t) /\ WithinPool(Kept(text[t])) =>
            FirstFifteenOf(result[t].repeated_phrases, AllFlagged(Kept(text[t])))

\* a report for 30 flagged bigrams and 30 flagged trigrams: 15 are reported
C18_FifteenOfSixty ==
    \E t \in Threads :
        /\ Done(t)
        /\ WithinPool(Kept(text[t]))
        /\ Cardinality(AllFlagged(Kept(text[t]))) = 60
        /\ Len(result[t].repeated_phrases) = 15
        /\ FirstFifteenOf(result[t].repeated_phrases, AllFlagged(Kept(text[t])))

\* a report for 31 flagged bigrams: the 31st, "zzzzzzzz aa", is ahead of
\* reported phrases and is not reported
C18_ThirtyFirstBigramMissing ==
    \E t \in Threads :
        /\ Done(t)
        /\ Cardinality(Frequent(Kept(text[t]), 2, 3)) = 31
        /\ LET p == <<<<122, 122, 122, 122, 122, 122, 122, 122, SP, 97, 97>>, 3>>
           IN  /\ p \in AllFlagged(Kept(text[t]))
               /\ \A i \in 1..Len(result[t].repeated_phrases) : result[t].repeated_phrases[i] # p
               /\ \E i \in 1..Len(result[t].repeated_phrases) : Ahead(p, result[t].repeated_phrases[i])

\* a report in which a bigram written twice is not flagged and the trigram
\* written twice is
C18_TrigramTwiceBigramTwice ==
    \E t \in Threads :
        /\ Done(t)
        /\ Frequent(Kept(text[t]), 2, 2) # {}
        /\ Frequent(Kept(text[t]), 2, 3) = {}
        /\ Len(result[t].repeated_phrases) = 1
        /\ result[t].repeated_phrases[1][2] = 2

(***************************************************************************)
(* Tips (SpecTips): texts of a few pieces, each of which moves one or two  *)
(* of the checked values across their thresholds.                          *)
(***************************************************************************)
MaxTipLexemes == 2

\* a sensory term; the passive marker; an absolute word; a visit and a
\* writer; a tip, a comparison and a place; a template phrase; one word
\* four times; a sentence of LONG_SENT + 1 words; four short sentences
TipLexemes ==
    {<<1591, 1575, 1586, 1580, 32>>,
     <<1578, 1605, 32>>,
     <<1580, 1605, 1610, 1593, 32>>,
     <<1586, 1610, 1575, 1585, 1577, 32, 1603, 1575, 1578, 1576, 32>>,
     <<1606, 1589, 1610, 1581, 1577, 32, 1610, 1588, 1576, 1607, 32, 1581, 1610, 32>>,
     FirstTemplatePhrase,
     <<97, 98, 32, 97, 98, 32, 97, 98, 32, 97, 98, 32>>,
     DistinctWords(LONG_SENT + 1) \o <<DOT, SP>>,
     <<99, 97, 46, 32, 99, 98, 46, 32, 99, 99, 46, 32, 99, 100, 46, 32>>}

TipTexts == Compose(TipLexemes, MaxTipLexemes)

NextTips == (\E txt \in TipTexts : Call(1, txt)) \/ Step(1)

SpecTips == Init /\ [][NextTips]_vars

\* the checks in their fixed order
TipOrder ==
    <<"sensory", "vocabulary", "passive", "fluff", "starts", "long_sentences",
      "info_gain", "eeat", "absolutes", "repeated", "boilerplate">>

\* the condition of a check on the values computed in the call of thread t
TipCondition(t, tip) ==
    LET f == loc[t]
    IN  CASE tip = "sensory" -> QLt(f.lex.sensory_ratio, Q(8, 10))
          [] tip = "vocabulary" -> QLt(f.sig.ttr, Q(35, 100))
          [] tip = "passive" -> QLt(QInt(12), f.pat.passive_ratio)
          [] tip = "fluff" -> QLt(QInt(25), f.sc.fluff_density)
          [] tip = "starts" -> QLt(Q(28, 100), f.st.start_hhi)
          [] tip = "long_sentences" -> QLt(QInt(28), f.st.avg_sent)
          [] tip = "info_gain" -> QLt(f.sig.info_gain_score, QInt(60))
          [] tip = "eeat" -> QLt(f.sig.eeat_score, QInt(50))
          [] tip = "absolutes" -> f.sig.abs_count > 0
          [] tip = "repeated" -> f.lex.repeated # <<>>
          [] tip = "boilerplate" -> f.pat.boiler_flags # <<>>

\* C19: the tips list is a subsequence of the fixed check order
\* (sensory_ratio < 0.8, ttr < 0.35, passive_ratio > 12, fluff_density > 25,
\* start_hhi > 0.28, avg_sentence_length > 28, info_gain_score < 60,
\* eeat_score < 50, absolutes_count > 0, any repeated phrase, any
\* boilerplate flag): each tip is present exactly when its own condition
\* holds of the computed values, whatever the other conditions, and the
\* tips are in this order
C19_TipsFollowTheirConditions ==
    \A t \in Threads :
        Done(t) =>
            result[t].tips = SelectSeq(TipOrder, LAMBDA tip : TipCondition(t, tip))

\* a report with five tips: the information gain tip is withheld, the
\* E-E-A-T tip next to it is given, and the five are in the order of the checks
C19_EeatWithoutInfoGain ==
    \E t \in Threads :
        /\ Done(t)
        /\ ~TipCondition(t, "info_gain")
        /\ TipCondition(t, "eeat")
        /\ ~TipCondition(t, "passive")
        /\ result[t].tips = <<"sensory", "fluff", "starts", "eeat", "absolutes">>

(***************************************************************************)
(* Sentiment (SpecSentiment): texts of a positive term, a negative term, a *)
(* term of both lexicons and a word of neither.                            *)
(***************************************************************************)
MaxSentimentLexemes == 5

SentimentLexemes ==
    {<<1604, 1584, 1610, 1584, 32>>, <<1587, 1610, 1574, 32>>,
     <<1605, 1578, 1608, 1575, 1586, 1606, 32>>, <<97, 98, 32>>}

SentimentTexts == Compose(SentimentLexemes, MaxSentimentLexemes)

NextSentiment == (\E txt \in SentimentTexts : Call(1, txt)) \/ Step(1)

SpecSentiment == Init /\ [][NextSentiment]_vars

\* the number of tokens of txt that are in the lexicon
TokensIn(txt, lexicon) ==
    Cardinality({i \in 1..Len(Words(txt)) : Lower(Words(txt)[i]) \in lexicon})

\* C20: sentiment.positive and sentiment.negative are the numbers of tokens
\* in the positive and in the negative lexicon, and sentiment.balance is
\* neutral exactly when |positive - negative| <= 2, positive-leaning when
\* positive - negative > 2 and critical-leaning when negative - positive > 2
C20_SentimentCountsAndBalance ==
    \A t \in Threads :
        Done(t) =>
            LET s == result[t].sentiment
            IN  /\ s.positive = TokensIn(text[t], POSITIVE_TERMS)
                /\ s.negative = TokensIn(text[t], NEGATIVE_TERMS)
                /\ s.balance = "neutral" <=> Abs(s.positive - s.negative) <= 2
                /\ s.positive - s.negative > 2 => s.balance = "positive-leaning"
                /\ s.negative - s.positive > 2 => s.balance = "critical-leaning"

\* a report that leans to the positive by a term of both lexicons: four
\* positive tokens and one negative
C20_LeaningByThree ==
    \E t \in Threads :
        /\ Done(t)
        /\ result[t].sentiment.positive = 4
        /\ result[t].sentiment.negative = 1
        /\ result[t].sentiment.balance = "positive-leaning"

\* a neutral report with a difference of 2
C20_NeutralAtTwo ==
    \E t \in Threads :
        /\ Done(t)
        /\ result[t].sentiment.negative - result[t].sentiment.positive = 2
        /\ result[t].sentiment.balance = "neutral"

\* a report that leans to criticism
C20_CriticalByThree ==
    \E t \in Threads :
        /\ Done(t)
        /\ result[t].sentiment.negative - result[t].sentiment.positive = 3
        /\ result[t].sentiment.balance = "critical-leaning"

(***************************************************************************)
(* Signals (SpecSignals): texts of keywords, one for each of the four      *)
(* authority signals and one for each of the five information-gain         *)
(* indicators, and one text with all nine.                                 *)
(***************************************************************************)
MaxSignalLexemes == 3

\* a keyword of experience, expertise, author and trust, each with a space
AuthorityKeywords ==
    <<<<1586, 1610, 1575, 1585, 1577, 32>>,
      <<1578, 1602, 1606, 1610, 1577, 32>>,
      <<1603, 1575, 1578, 1576, 32>>,
      <<1605, 1589, 1583, 1585, 32>>>>

\* a tip, a comparison, a small criticism, a place, an earlier visit
IndicatorKeywords ==
    <<<<1606, 1589, 1610, 1581, 1577, 32>>,
      <<1610, 1588, 1576, 1607, 32>>,
      <<1587, 1604, 1576, 1610, 1577, 32, 1589, 1594, 1610, 1585, 1577, 32>>,
      <<1581, 1610, 32>>,
      <<1578, 1580, 1585, 1576, 1577, 32, 1587, 1575, 1576, 1602, 1577, 32>>>>

SignalLexemes == Range(AuthorityKeywords) \cup Range(IndicatorKeywords)

AllSignals == Concat(AuthorityKeywords) \o Concat(IndicatorKeywords)

SignalTexts == Compose(SignalLexemes, MaxSignalLexemes) \cup {AllSignals}

NextSignals == (\E txt \in SignalTexts : Call(1, txt)) \/ Step(1)

SpecSignals == Init /\ [][NextSignals]_vars

\* kw is written somewhere in txt, and how often
TimesWritten(txt, kw) ==
    Cardinality({i \in 1..(Len(txt) - Len(kw) + 1) : SubSeq(txt, i, i + Len(kw) - 1) = kw})

Written(txt, kw) == TimesWritten(txt, kw) > 0

\* the number of keywords of kws written in txt, however often
KindsWritten(txt, kws) == Cardinality({k \in 1..Len(kws) : Written(txt, kws[k])})

\* C21: each of the 4 authority signals and each of the 5 information-gain
\* indicators is a binary flag that does not depend on how often its
\* keywords occur; eeat_score = 25 * (number of authority flags set) and
\* info_gain_score = 20 * (number of indicators matched), so eeat_score is
\* in {0, 25, 50, 75, 100} and info_gain_score in {0, 20, 40, 60, 80, 100}
C21_BinaryFlagsAndScores ==
    \A t \in Threads :
        Done(t) =>
            LET e == result[t].eeat
                flags == e.experience + e.expertise + e.author + e.trust
            IN  /\ e.experience = Flag(Written(text[t], AuthorityKeywords[1]))
                /\ e.expertise = Flag(Written(text[t], AuthorityKeywords[2]))
                /\ e.author = Flag(Written(text[t], AuthorityKeywords[3]))
                /\ e.trust = Flag(Written(text[t], AuthorityKeywords[4]))
                /\ result[t].eeat_score = QInt(25 * flags)
                /\ loc[t].sig.eeat_score = QInt(25 * flags)
                /\ result[t].info_gain_score = QInt(20 * KindsWritten(text[t], IndicatorKeywords))
                /\ loc[t].sig.info_gain_score = result[t].info_gain_score
                /\ result[t].eeat_score \in {QInt(25 * n) : n \in 0..4}
                /\ result[t].info_gain_score \in {QInt(20 * n) : n \in 0..5}

\* a report for one authority keyword written twice and one indicator
\* keyword written once: one flag, 25 and 20
C21_KeywordTwiceOneFlag ==
    \E t \in Threads :
        /\ Done(t)
        /\ TimesWritten(text[t], AuthorityKeywords[3]) = 2
        /\ TimesWritten(text[t], IndicatorKeywords[1]) = 1
        /\ result[t].eeat.author = 1
        /\ result[t].eeat_score = QInt(25)
        /\ result[t].info_gain_score = QInt(20)

\* a report with all the flags set: 100 and 100
C21_AllSignalsSet ==
    \E t \in Threads :
        /\ Done(t)
        /\ text[t] = AllSignals
        /\ result[t].eeat_score = QInt(100)
        /\ result[t].info_gain_score = QInt(100)

\* a report for the tip keyword written three times: 20
C21_TipThriceTwenty ==
    \E t \in Threads :
        /\ Done(t)
        /\ TimesWritten(text[t], IndicatorKeywords[1]) = 3
        /\ result[t].info_gain_score = QInt(20)

(***************************************************************************)
(* Headings (SpecHeadings): texts of "##", "###", a space, a line break,   *)
(* "faq" and a word, and one text with an indented heading after a bare    *)
(* one.                                                                    *)
(***************************************************************************)
MaxHeadingLexemes == 4

HeadingLexemes == {<<HASH, HASH>>, <<HASH, HASH, HASH>>, <<SP>>, <<NL>>, <<102, 97, 113>>, <<97, 98>>}

\* "##", a line break, " ##", a line break
IndentedAfterBare == <<HASH, HASH, NL, SP, HASH, HASH, NL>>

HeadingTexts == Compose(HeadingLexemes, MaxHeadingLexemes) \cup {IndentedAfterBare}

NextHeadings == (\E txt \in HeadingTexts : Call(1, txt)) \/ Step(1)

SpecHeadings == Init /\ [][NextHeadings]_vars

\* position p is in the line of position q <= p
SameLine(txt, q, p) == \A r \in q..(p - 1) : txt[r] # NL

\* position p holds the first character of its line that is no whitespace
FirstOfLine(txt, p) ==
    /\ ~IsSpace(txt[p])
    /\ \A q \in 1..(p - 1) : SameLine(txt, q, p) => IsSpace(txt[q])

\* the places where a line begins with n hashes followed by whitespace
HeadingMarks(txt, n) ==
    {p \in 1..(Len(txt) - n) :
        /\ FirstOfLine(txt, p)
        /\ \A k \in 0..(n - 1) : txt[p + k] = HASH
        /\ IsSpace(txt[p + n])}

\* the places where "faq" is written, in small or capital letters
FaqPlaces(txt) ==
    {q \in 1..(Len(txt) - 2) : Lower(SubSeq(txt, q, q + 2)) = <<102, 97, 113>>}

\* a line that begins with a hash holds "faq"
FaqHeadingLine(txt) ==
    \E p \in 1..Len(txt) :
        /\ FirstOfLine(txt, p)
        /\ txt[p] = HASH
        /\ \E q \in FaqPlaces(txt) : p < q /\ SameLine(txt, p, q + 2)

\* C22: the headings block is computed from heading lines only: the h2
\* count is the number of lines beginning with '##' followed by whitespace,
\* the h3 count the number of lines beginning with '###' followed by
\* whitespace, no line is counted in both, and the FAQ flag is set exactly
\* when the text has a FAQ heading line (the word FAQ in body text that is
\* not a heading does not set it)
C22_HeadingsFromHeadingLines ==
    \A t \in Threads :
        Done(t) =>
            /\ result[t].headings.h2 = Cardinality(HeadingMarks(text[t], 2))
            /\ result[t].headings.h3 = Cardinality(HeadingMarks(text[t], 3))
            /\ result[t].headings.faq_sections = Flag(FaqHeadingLine(text[t]))

\* "faq" in a text without a hash sets the flag
C22_FaqInBodyText ==
    \E t \in Threads :
        /\ Done(t)
        /\ \A i \in 1..Len(text[t]) : text[t][i] # HASH
        /\ \E i \in 1..Len(text[t]) : text[t][i] = SP
        /\ result[t].headings.faq_sections = 1

\* an indented heading after a heading line that ends with its hashes is
\* not counted
C22_IndentedHeadingNotCounted ==
    \E t \in Threads :
        /\ Done(t)
        /\ text[t] = IndentedAfterBare
        /\ Cardinality(HeadingMarks(text[t], 2)) = 2
        /\ result[t].headings.h2 = 1

\* what the code computes of the flag: "faq" written anywhere
C22_FaqWhereverWritten ==
    \A t \in Threads :
        Done(t) => result[t].headings.faq_sections = Flag(FaqPlaces(text[t]) # {})

\* the counts of the texts of a few lexemes are those of the heading lines
C22_CountsOfShortTexts ==
    \A t \in Threads :
        Done(t) /\ text[t] # IndentedAfterBare =>
            /\ result[t].headings.h2 = Cardinality(HeadingMarks(text[t], 2))
            /\ result[t].headings.h3 = Cardinality(HeadingMarks(text[t], 3))

(***************************************************************************)
(* Segmentation (SpecSegments): texts of a word of one letter with a       *)
(* space, with a full stop and a space, with a full stop alone, an Arabic  *)
(* question mark with a space, and a line break.                           *)
(***************************************************************************)
MaxSegmentLexemes == 4

SegmentLexemes == {<<97, SP>>, <<97, DOT, SP>>, <<97, DOT>>, <<ARQ, SP>>, <<NL>>}

SegmentTexts == Compose(SegmentLexemes, MaxSegmentLexemes)

NextSegments == (\E txt \in SegmentTexts : Call(1, txt)) \/ Step(1)

SpecSegments == Init /\ [][NextSegments]_vars

\* the tokens of the pieces, piece after piece
TokensOfPieces(pieces) == Concat([i \in 1..Len(pieces) |-> Words(pieces[i])])

\* no token is lost, duplicated or cut by a sentence or paragraph boundary:
\* the tokens of the sentences and those of the paragraphs are the tokens of
\* the text, so their numbers sum to word_count
TokensConserved(t) ==
    /\ TokensOfPieces(loc[t].seg.sentences) = Words(text[t])
    /\ TokensOfPieces(loc[t].seg.paragraphs) = Words(text[t])
    /\ Len(TokensOfPieces(loc[t].seg.sentences)) = result[t].word_count
    /\ Len(TokensOfPieces(loc[t].seg.paragraphs)) = result[t].word_count
    /\ Len(loc[t].seg.sentences) = result[t].sentence_count
    /\ Len(loc[t].seg.paragraphs) = result[t].paragraph_count

\* C23 as stated: segmentation conserves tokens: the per-sentence token
\* counts sum to word_count and the per-paragraph token counts sum to
\* word_count, hence avg_sentence_length * sentence_count = word_count
\* whenever sentence_count > 0
C23_ConservedAndExactAverage ==
    \A t \in Threads :
        Done(t) =>
            /\ TokensConserved(t)
            /\ result[t].sentence_count > 0 =>
                  QMul(result[t].avg_sentence_length, QInt(result[t].sentence_count))
                      = QInt(result[t].word_count)

\* C23 amended: segmentation conserves tokens in the same way, hence
\* avg_sentence_length is word_count / sentence_count rounded to two places
\* whenever sentence_count > 0
C23_ConservedAndRoundedAverage ==
    \A t \in Threads :
        Done(t) =>
            /\ TokensConserved(t)
            /\ result[t].sentence_count > 0 =>
                  /\ QMul(loc[t].st.avg_sent, QInt(result[t].sentence_count))
                         = QInt(result[t].word_count)
                  /\ result[t].avg_sentence_length
                         = Round(Q(result[t].word_count, result[t].sentence_count), 2)

\* a report for four words in three sentences: 1.33
C23_FourWordsThreeSentences ==
    \E t \in Threads :
        /\ Done(t)
        /\ result[t].word_count = 4
        /\ result[t].sentence_count = 3
        /\ TokensConserved(t)
        /\ result[t].avg_sentence_length = Q(133, 100)

\* a report for two words around a full stop without a space: one sentence
\* of two tokens
C23_StopInsideSentence ==
    \E t \in Threads :
        /\ Done(t)
        /\ text[t] = <<97, DOT, 97, DOT>>
        /\ result[t].sentence_count = 1
        /\ result[t].word_count = 2

\* a report for two paragraphs of one sentence each
C23_TwoParagraphs ==
    \E t \in Threads :
        /\ Done(t)
        /\ result[t].paragraph_count = 2
        /\ result[t].sentence_count = 2
        /\ result[t].word_count = 2
        /\ TokensConserved(t)

(***************************************************************************)
(* Blank input (SpecBlank): texts of spaces, tabs, line breaks and a word. *)
(***************************************************************************)
MaxBlankLexemes == 4

BlankLexemes == {<<SP>>, <<9>>, <<NL>>, <<97, 98>>}

BlankTexts == Compose(BlankLexemes, MaxBlankLexemes)

NextBlank == (\E txt \in BlankTexts : Call(1, txt)) \/ Step(1)

SpecBlank == Init /\ [][NextBlank]_vars

\* empty or whitespace only
IsBlank(txt) == \A i \in 1..Len(txt) : IsSpace(txt[i])

\* C24: for empty or whitespace-only input quality_report returns
\* human_style_score exactly 50 (baseline, no bonus and no penalty) and
\* exactly four tips in this order: the sensory tip, the vocabulary tip,
\* the information-gain tip and the E-E-A-T tip
C24_BlankScoreAndTips ==
    \A t \in Threads :
        Done(t) /\ IsBlank(text[t]) =>
            /\ result[t].human_style_score = QInt(50)
            /\ loc[t].sc.human_style_score = QInt(50)
            /\ result[t].tips = <<"sensory", "vocabulary", "info_gain", "eeat">>

\* a report for a text of whitespace of several kinds
C24_WhitespaceOnly ==
    \E t \in Threads :
        /\ Done(t)
        /\ IsBlank(text[t])
        /\ Len(text[t]) = 4
        /\ Cardinality(Range(text[t])) = 3
        /\ result[t].word_count = 0
        /\ result[t].human_style_score = QInt(50)
        /\ Len(result[t].tips) = 4

\* a report for the empty text
C24_EmptyText ==
    \E t \in Threads :
        /\ Done(t)
        /\ text[t] = <<>>
        /\ result[t].human_style_score = QInt(50)
        /\ result[t].tips = <<"sensory", "vocabulary", "info_gain", "eeat">>

\* a report for a text with a word has another score
C24_WordChangesScore ==
    \E t \in Threads :
        /\ Done(t)
        /\ ~IsBlank(text[t])
        /\ result[t].human_style_score # QInt(50)

(***************************************************************************)
(* The score as a function of the metric values (SpecMetrics): the score   *)
(* lines are applied in thread 1 to metric values of a grid around the     *)
(* thresholds and caps, and in thread 2 to the same values with one of     *)
(* them raised.                                                            *)
(***************************************************************************)
GridSteps == 2

\* the values of a metric: from lo in GridSteps steps of step / den
GridOf(lo, step, den) == {Q(lo + k * step, den) : k \in 0..GridSteps}

MetricNames ==
    {"sensory_ratio", "ttr", "info_gain_score", "start_hhi", "passive_ratio",
     "fluff_density", "avg_sent"}

\* sensory_ratio 0, 30, 60 (cap at 40); ttr 0, 0.4, 0.8 (cap at 0.5);
\* start_hhi 0, 0.3, 0.6 (from 0.2, cap at 0.4); passive_ratio and
\* fluff_density 0, 20, 40 (cap at 30); info_gain_score 0, 60, 100 (three of
\* the values it takes); avg_sent 28 and 28.5
MetricValues(name) ==
    CASE name = "sensory_ratio" -> GridOf(0, 30, 1)
      [] name = "ttr" -> GridOf(0, 4, 10)
      [] name = "info_gain_score" -> {QInt(0), QInt(60), QInt(100)}
      [] name = "start_hhi" -> GridOf(0, 3, 10)
      [] name = "passive_ratio" -> GridOf(0, 20, 1)
      [] name = "fluff_density" -> GridOf(0, 20, 1)
      [] name = "avg_sent" -> {QInt(LONG_SENT), Q(2 * LONG_SENT + 1, 2)}

\* every combination of values of the grids
BaseMetrics ==
    [sensory_ratio : MetricValues("sensory_ratio"), ttr : MetricValues("ttr"),
     info_gain_score : MetricValues("info_gain_score"),
     start_hhi : MetricValues("start_hhi"),
     passive_ratio : MetricValues("passive_ratio"),
     fluff_density : MetricValues("fluff_density"),
     avg_sent : MetricValues("avg_sent")]

\* lines 172-183 with the metric values m: the frame after the score lines
MetricsFrame(m) ==
    [NoLocals EXCEPT
        !.st.start_hhi = m.start_hhi, !.st.avg_sent = m.avg_sent,
        !.lex.sensory_ratio = m.sensory_ratio,
        !.pat.passive_ratio = m.passive_ratio,
        !.sig.ttr = m.ttr, !.sig.info_gain_score = m.info_gain_score,
        !.sc = [fluff_density |-> m.fluff_density,
                base_score |-> BaseScore(m),
                human_style_score |-> HumanStyleScore(m)]]

\* the score lines run in thread t on the metric values m
ScoreOfMetrics(t, m) ==
    /\ pc[t] = "idle"
    /\ loc' = [loc EXCEPT ![t] = MetricsFrame(m)]
    /\ pc' = [pc EXCEPT ![t] = "return"]
    /\ UNCHANGED <<tables, text, result>>
    /\ UNCHANGED <<clientVars, places>>

\* metric n of the frame of thread t
Metric(t, n) ==
    CASE n = "sensory_ratio" -> loc[t].lex.sensory_ratio
      [] n = "ttr" -> loc[t].sig.ttr
      [] n = "info_gain_score" -> loc[t].sig.info_gain_score
      [] n = "start_hhi" -> loc[t].st.start_hhi
      [] n = "passive_ratio" -> loc[t].pat.passive_ratio
      [] n = "fluff_density" -> loc[t].sc.fluff_density
      [] n = "avg_sent" -> loc[t].st.avg_sent

\* the metric values of the frame of thread t
MetricsOf(t) == [n \in MetricNames |-> Metric(t, n)]

\* thread 1 scores base values; thread 2 then scores the values of thread 1
\* with one metric raised
NextMetrics ==
    \/ \E m \in BaseMetrics : pc[2] = "idle" /\ ScoreOfMetrics(1, m)
    \/ \E n \in MetricNames : \E v \in MetricValues(n) :
          /\ Scored(1)
          /\ QLt(Metric(1, n), v)
          /\ ScoreOfMetrics(2, [MetricsOf(1) EXCEPT ![n] = v])

SpecMetrics == Init /\ [][NextMetrics]_vars

\* threads a and b have scored values that differ in metric n at most, the
\* value of b being the higher one
RaisedIn(a, b, n) ==
    /\ Scored(a) /\ Scored(b)
    /\ \A k \in MetricNames \ {n} : Metric(a, k) = Metric(b, k)
    /\ QLt(Metric(a, n), Metric(b, n))

ScoreOf(t) == loc[t].sc.human_style_score

\* C25: as a function of the metric values the composite score is monotone:
\* with all other metrics fixed, raising sensory_ratio, ttr or
\* info_gain_score never lowers human_style_score, and raising start_hhi,
\* passive_ratio or fluff_density, or moving the average sentence length
\* above 28, never raises it
C25_ScoreMonotone ==
    \A a, b \in Threads :
        /\ \A n \in {"sensory_ratio", "ttr", "info_gain_score"} :
              RaisedIn(a, b, n) => QLe(ScoreOf(a), ScoreOf(b))
        /\ \A n \in {"start_hhi", "passive_ratio", "fluff_density", "avg_sent"} :
              RaisedIn(a, b, n) => QLe(ScoreOf(b), ScoreOf(a))

\* start_hhi raised from 0 to 0.3 with a score that falls by 20
C25_StartsRaisedScoreFalls ==
    /\ RaisedIn(1, 2, "start_hhi")
    /\ Metric(1, "start_hhi") = QInt(0)
    /\ Metric(2, "start_hhi") = Q(3, 10)
    /\ ScoreOf(2) = QSub(ScoreOf(1), QInt(20))
    /\ QLt(QInt(0), ScoreOf(2))

\* sensory_ratio raised with a higher score
C25_SensoryRaisedScoreRises ==
    /\ RaisedIn(1, 2, "sensory_ratio")
    /\ QLt(ScoreOf(1), ScoreOf(2))

\* the average sentence length moved above 28 with a score 10 lower
C25_AboveTwentyEight ==
    /\ RaisedIn(1, 2, "avg_sent")
    /\ Metric(1, "avg_sent") = QInt(LONG_SENT)
    /\ ScoreOf(2) = QSub(ScoreOf(1), QInt(10))

\* a metric raised above its cap with the same score
C25_RaisedAboveCap ==
    /\ RaisedIn(1, 2, "passive_ratio")
    /\ Metric(1, "passive_ratio") = QInt(20)
    /\ ScoreOf(2) = QSub(ScoreOf(1), QInt(10))

(***************************************************************************)
(* Calls of chat_complete_cached in a session, with the cacher switched,   *)
(* the cache cleared and time passing between them: the primary and the    *)
(* fallback model in both orders, the same model twice, no fallback, an    *)
(* empty primary model, no cacher, and a temperature and a cache_extra     *)
(* that the key takes for the same.                                        *)
(***************************************************************************)
GPT41 == "gpt-4.1"
GPT4O == "gpt-4o"
UserSays == <<[role |-> <<117, 115, 101, 114>>, content |-> <<97>>]>>
NoExtra == [given |-> FALSE, dict |-> {}]
Asked(model, fallback_model, withCacher) ==
    [messages |-> UserSays, model |-> model, fallback_model |-> fallback_model,
     temperature |-> Q(7, 10), max_tokens |-> QInt(1500), cacher |-> withCacher,
     cache_extra |-> NoExtra]
Requests ==
    {Asked(GPT41, GPT4O, TRUE), Asked(GPT41, None, TRUE), Asked(GPT41, GPT41, TRUE),
     Asked("", GPT4O, TRUE), Asked(GPT41, GPT4O, FALSE), Asked(GPT4O, GPT41, TRUE),
     [Asked(GPT41, "", TRUE) EXCEPT !.temperature = Q(7004, 10000),
                                    !.cache_extra = [given |-> TRUE, dict |-> {}]]}
Replies == {"", "ok"}
\* what the first and the second attempt of a call raise when they raise
Errors == <<"RateLimitError", "APIError">>

ChatStep(s) ==
    \/ Lookup(s) \/ Skip(s) \/ Fail(s)
    \/ \E txt \in Replies : Answer(s, txt)
    \/ Error(s, Errors[chat[s].i])

NextChat ==
    \/ Import(TRUE)
    \/ \E en \in BOOLEAN : Construct(1, DEFAULT_CACHE_DIR, QInt(1), en)
    \/ \E en \in BOOLEAN : Configure(1, <<en>>, <<>>)
    \/ ClearOp(1)
    \/ Tick
    \/ \E req \in Requests : ChatCall(1, req)
    \/ ChatStep(1)

SpecChat == Init /\ [][NextChat]_vars

\* the events of the call of session s, and the models it called
Trace(s) == chat[s].trace
Looked(s) == Trace(s) # <<>> /\ Trace(s)[1].ev = "get"
Found(s) == Looked(s) /\ Trace(s)[1].res # None
ModelCalls(s) == {i \in 1..Len(Trace(s)) : Trace(s)[i].ev \in {"answer", "error"}}
SetCalls(s) == {i \in 1..Len(Trace(s)) : Trace(s)[i].ev = "set"}
Answers(s) == {i \in 1..Len(Trace(s)) : Trace(s)[i].ev = "answer"}

\* C26: with an enabled cacher the lookup comes before any model call; a
\* value found (anything but None) is returned with no model called and
\* nothing set; on a miss the text of the first model call that succeeds is
\* set under the key of the lookup and then returned.
C26_LookupThenModelsThenSet ==
    \A s \in Sessions :
        /\ (chat[s].pc = "models" /\ UsesCache(s)) =>
               Trace(s)[1] = GetEvent(CacheKey(chat[s].req), None)
        /\ Looked(s) => \A i \in ModelCalls(s) : i > 1
        /\ Found(s) =>
               /\ chat[s].pc = "returned"
               /\ chat[s].out = Trace(s)[1].res
               /\ ModelCalls(s) = {} /\ SetCalls(s) = {}
        /\ (Looked(s) /\ ~Found(s) /\ chat[s].pc = "returned") =>
               LET n == Len(Trace(s))
               IN  /\ Answers(s) = {n - 1}
                   /\ Trace(s)[n] = SetEvent(Trace(s)[1].key, Trace(s)[n - 1].res)
                   /\ chat[s].out = Trace(s)[n - 1].res
        /\ (Looked(s) /\ chat[s].pc # "returned") => Answers(s) = {} /\ SetCalls(s) = {}

\* an empty text found in the cache is returned as it is
C26_EmptyTextFound ==
    /\ chat[1].pc = "returned"
    /\ Trace(1) = <<GetEvent(CacheKey(chat[1].req), "")>>
    /\ chat[1].out = ""

\* a miss, the primary model raising, the fallback's text set and returned
C26_MissThenFallbackStored ==
    /\ chat[1].pc = "returned"
    /\ Len(Trace(1)) = 4
    /\ Trace(1)[1].res = None /\ Trace(1)[2].ev = "error"
    /\ Trace(1)[3] = ModelEvent(GPT4O, TRUE, "ok")
    /\ Trace(1)[4] = SetEvent(CacheKey(chat[1].req), "ok")
    /\ CacherGet(cacher[1], disk, CacheKey(chat[1].req), now) = "ok"

\* the attempts of the call of session s on the model m
CallsOf(s, m) == {i \in ModelCalls(s) : Trace(s)[i].model = m}
Raised(s, m, i) == \E j \in 1..(i - 1) : Trace(s)[j].ev = "error" /\ Trace(s)[j].model = m
Errs(s) == {i \in 1..Len(Trace(s)) : Trace(s)[i].ev = "error"}

\* the fallback is called after the primary model raised and no sooner
FallbackAfterPrimaryRaised(s) ==
    \A i \in ModelCalls(s) :
        (Trace(s)[i].model = chat[s].req.fallback_model
         /\ chat[s].req.fallback_model # chat[s].req.model)
            => Raised(s, chat[s].req.model, i)

\* no model is called twice in a call
OnceEach(s) == \A m \in {GPT41, GPT4O} : Cardinality(CallsOf(s, m)) <= 1

\* a call that raises raises what its last attempt raised and sets nothing
LastErrorNothingSet(s) ==
    (chat[s].pc = "raised" /\ Errs(s) # {}) =>
        /\ \E i \in Errs(s) : (\A j \in Errs(s) : j <= i) /\ chat[s].out = Trace(s)[i].res
        /\ SetCalls(s) = {}

\* C27: the fallback model is called only after the call of the primary
\* model raised, each model is called at most once, and when every attempt
\* raised the call raises what the last attempt raised and sets nothing in
\* the cache.
C27_FallbackAfterPrimaryOnceEach ==
    \A s \in Sessions :
        FallbackAfterPrimaryRaised(s) /\ OnceEach(s) /\ LastErrorNothingSet(s)

\* fallback_model the same as model: the model is called a second time
C27_SameModelCalledTwice ==
    /\ chat[1].req.model = GPT41 /\ chat[1].req.fallback_model = GPT41
    /\ Cardinality(CallsOf(1, GPT41)) = 2

\* an empty model: the fallback is called with no attempt before it
C27_FallbackFirst ==
    /\ chat[1].req.model = "" /\ chat[1].pc = "returned"
    /\ ModelCalls(1) # {} /\ Errs(1) = {}
    /\ \A i \in ModelCalls(1) : Trace(1)[i].model = GPT4O

\* what the last attempt raised is raised and nothing is set, whatever the
\* models; with two different models named, the second is called after the
\* first raised and each of them once
C27_TwoModelsOnceEach ==
    \A s \in Sessions :
        /\ LastErrorNothingSet(s)
        /\ (Truthy(chat[s].req.model) /\ chat[s].req.model # chat[s].req.fallback_model)
              => FallbackAfterPrimaryRaised(s) /\ OnceEach(s)

\* both models raised: the error of the fallback is raised
C27_BothRaised ==
    /\ chat[1].pc = "raised"
    /\ Cardinality(Errs(1)) = 2
    /\ chat[1].out = Errors[2]
    /\ UsesCache(1)

\* the arguments the key is made of are the same in two calls
SameAsked(a, b) ==
    /\ a.messages = b.messages /\ a.model = b.model
    /\ a.temperature = b.temperature /\ a.max_tokens = b.max_tokens
    /\ a.cache_extra = b.cache_extra

\* the entries of the directory of session s that have not expired and were
\* written by a call with the arguments of the call of s, its fallback
\* having answered
FallbackEntries(s) ==
    LET store == disk[cacher[s].cache]
    IN  {k \in DOMAIN store :
            /\ store[k].expire > now
            /\ store[k].by # None /\ store[k].by # store[k].req.model
            /\ store[k].by = store[k].req.fallback_model
            /\ SameAsked(store[k].req, chat[s].req)}

\* C28: the key is made of the primary model asked for and not of the model
\* that answered: a call looking up the cache while it holds the text a
\* fallback gave to a call with the same messages, model, temperature,
\* max_tokens and cache_extra returns that text out of the cache and calls
\* no model, whatever its own fallback_model.
C28_KeyOfPrimaryModel ==
    [][\A s \in Sessions :
          (chat[s].pc = "lookup" /\ chat'[s].pc # "lookup" /\ UsesCache(s)) =>
              \A k \in FallbackEntries(s) :
                  /\ chat'[s].pc = "returned"
                  /\ chat'[s].out = disk[cacher[s].cache][k].value
                  /\ chat'[s].trace = <<GetEvent(CacheKey(chat[s].req), chat'[s].out)>>]_vars

\* a call without a fallback returned, with no model called, the text the
\* fallback of an earlier call gave
C28_FallbackTextWithoutFallback ==
    /\ chat[1].pc = "returned"
    /\ chat[1].req.fallback_model = None
    /\ ModelCalls(1) = {} /\ Found(1)
    /\ \E k \in FallbackEntries(1) :
          /\ disk[DEFAULT_CACHE_DIR][k].value = chat[1].out
          /\ disk[DEFAULT_CACHE_DIR][k].by = GPT4O
          /\ disk[DEFAULT_CACHE_DIR][k].req.fallback_model = GPT4O

\* the text the model gpt-4o gave as a fallback is not found by a call that
\* asks for gpt-4o as its primary model: every entry lies under the key of
\* the call that wrote it
C28_EntriesUnderTheirKeys ==
    \A d \in Dirs : \A k \in DOMAIN disk[d] :
        disk[d][k].by # None => k = CacheKey(disk[d][k].req) /\ k[1] = disk[d][k].req.model

\* an entry written by a fallback lies under the name of the primary model
C28_FallbackUnderPrimary ==
    \E k \in DOMAIN disk[DEFAULT_CACHE_DIR] :
        /\ disk[DEFAULT_CACHE_DIR][k].by = GPT4O
        /\ k[1] = GPT41

(***************************************************************************)
(* The methods of an LLMCacher called in any order: built on either        *)
(* directory, enabled or not, with diskcache installed or not, with hours  *)
(* that are zero, negative or not whole, while another session writes to   *)
(* the default directory.                                                  *)
(***************************************************************************)
TtlHours == {QInt(-1), QInt(0), Q(5, 2)}
AKey == <<"k">>
Switches == {<<>>, <<TRUE>>, <<FALSE>>}
NextCacher ==
    \/ \E b \in BOOLEAN : Import(b)
    \/ \E d \in Dirs, h \in TtlHours, en \in BOOLEAN : Construct(1, d, h, en)
    \/ Construct(2, DEFAULT_CACHE_DIR, QInt(1), TRUE)
    \/ \E en \in Switches, h \in {<<>>} \cup {<<x>> : x \in TtlHours} : Configure(1, en, h)
    \/ GetOp(1, AKey)
    \/ SetOp(1, AKey, "a") \/ SetOp(2, AKey, "b")
    \/ ClearOp(1)
    \/ Tick

SpecCacher == Init /\ [][NextCacher]_vars

\* enabled with no store never holds, and a ttl is an hour or more
StoreWhenEnabled ==
    \A s \in Sessions :
        cacher[s].made => /\ (cacher[s].enabled => cacher[s].cache # None)
                          /\ cacher[s].ttl >= 3600

\* the entries of the directory d that can be read now
Readable(d) == {k \in DOMAIN disk[d] : disk[d][k].expire > now}

C29_EntryRead ==
    /\ cacher[1].enabled /\ cacher[1].cache = OtherDir
    /\ ret[1] = [op |-> "get", key |-> AKey, value |-> "a", ok |-> FALSE]

\* diskcache is not installed: a cacher told to enable stays disabled
C29_NotInstalled ==
    /\ Cache = None /\ cacher[1].made /\ ~cacher[1].enabled
    /\ ret[1].op = "clear" /\ ~ret[1].ok

\* a cacher built disabled and enabled later opens the default directory
C29_ClearedWhenEnabled ==
    /\ cacher[1].enabled /\ cacher[1].ttl = 7200
    /\ ret[1].op = "clear" /\ ret[1].ok

(***************************************************************************)
(* Lists of up to MaxPlaces items as normalize_from_google builds them:    *)
(* one restaurant under three spellings with one phone number written two *)
(* ways, and with a website and no phone; items without a name, a phone    *)
(* and a website, at one spot; ratings and review counts that are numbers, *)
(* None or missing.                                                        *)
(***************************************************************************)
MaxPlaces == 3
Phone1 == <<48, 49, 49, 32, 53, 53, 53, 32, 49, 50, 51, 52>>
Phone2 == <<43, 57, 54, 54, 32, 49, 49, 32, 53, 53, 53, 32, 49, 50, 51, 52>>
Site1 == <<104, 116, 116, 112, 115, 58, 47, 47, 65, 108, 66, 97, 105, 107, 46, 99, 111, 109, 47, 109, 101, 110, 117>>
Site2 == <<104, 116, 116, 112, 58, 47, 47, 97, 108, 98, 97, 105, 107, 46, 99, 111, 109>>
Site3 == <<97, 108, 98, 97, 105, 107, 46, 99, 111, 109, 47, 109, 101, 110, 117>>
Name1 == <<65, 108, 32, 66, 97, 105, 107>>
Name2 == <<97, 108, 45, 98, 97, 105, 107, 33>>
Name3 == <<65, 76, 32, 32, 66, 65, 73, 75>>
Item(name, phone, website, lat, lng, rating, reviews_count) ==
    [name |-> name, phone |-> phone, website |-> website, lat |-> lat, lng |-> lng,
     rating |-> rating, reviews_count |-> reviews_count]
Here == Num(Q(247136, 10000))
East == Num(Q(466753, 10000))
PlaceItems ==
    {Item(Name1, Phone1, <<>>, Here, East, Num(Q(9, 2)), Num(QInt(100))),
     Item(Name2, Phone2, <<>>, Here, East, PyNone, Num(QInt(100))),
     Item(Name3, Phone1, <<>>, Here, East, Num(QInt(4)), Num(QInt(200))),
     Item(Name1, <<>>, Site1, Here, East, Num(Q(9, 2)), Num(QInt(100))),
     Item(Name2, <<>>, Site2, PyNone, PyNone, Num(Q(9, 2)), Num(QInt(100))),
     Item(<<>>, <<>>, Site3, Here, East, Missing, Missing),
     Item(<<>>, <<>>, <<>>, Num(Q(247141, 10000)), Num(Q(466749, 10000)), PyNone, PyNone),
     Item(<<>>, <<>>, <<>>, PyNone, East, Num(QInt(3)), Num(QInt(50)))}
PlaceLists == UNION {[1..k -> PlaceItems] : k \in 0..MaxPlaces}

NextPlaces ==
    \/ \E items \in PlaceLists : DedupeCall(items)
    \/ DedupeAgain
    \/ DedupeDone

SpecPlaces == Init /\ [][NextPlaces]_vars

\* a number that is missing or None counts as 0
NumberOf(x) == IF x = Missing \/ x = PyNone THEN QInt(0) ELSE x.v

\* the pair of item a is not smaller than the pair of item b
NotSmaller(a, b) ==
    \/ QLt(NumberOf(b.reviews_count), NumberOf(a.reviews_count))
    \/ /\ NumberOf(b.reviews_count) = NumberOf(a.reviews_count)
       /\ QLe(NumberOf(b.rating), NumberOf(a.rating))

\* the places of the items that are the first with their key
FirstOfKey(items) ==
    SelectSeq(Indices(items),
              LAMBDA i : \A j \in 1..(i - 1) : DedupKey(items[j]) # DedupKey(items[i]))

\* the earliest item with the key of item i whose pair is the greatest
BestOfKey(items, i) ==
    LET same == {j \in 1..Len(items) : DedupKey(items[j]) = DedupKey(items[i])}
        best == {j \in same : \A k \in same : NotSmaller(items[j], items[k])}
    IN  items[CHOOSE j \in best : \A k \in best : j <= k]

\* one item for each key, in the order the keys first appear
OnePerKey(items) ==
    LET firsts == FirstOfKey(items)
    IN  SubSeq([n \in 1..Len(firsts) |-> BestOfKey(items, firsts[n])], 1, Len(firsts))

\* C30: for every list of normalized items, with ratings and review counts
\* that may be missing or None, dedupe_places raises nothing and returns one
\* item for each key, the earliest of those with the greatest
\* (reviews_count, rating) pair, in the order the keys first appear; called
\* on what it returned it returns the same list.
C30_OnePerKeyNoRaise ==
    /\ places.pc \notin {"raised", "raised again"}
    /\ places.pc \in {"returned", "returned again"} => places.out = OnePerKey(places.items)
    /\ places.pc = "returned again" => places.again = places.out

\* two items of one key, the same review count, one rating None: TypeError
C30_NoneRatingRaises ==
    /\ places.pc = "raised"
    /\ Len(places.items) = 2
    /\ DedupKey(places.items[1]) = DedupKey(places.items[2])
    /\ places.items[1].reviews_count = places.items[2].reviews_count
    /\ places.items[2].rating = PyNone

\* the numbers of two items of one key can be compared when none of the
\* numbers is None, or both items hold the same
Comparable(a, b) ==
    LET ra == GetOr0(a.reviews_count)
        rb == GetOr0(b.reviews_count)
        ta == GetOr0(a.rating)
        tb == GetOr0(b.rating)
    IN  IF PyEq(ra, rb) THEN PyEq(ta, tb) \/ (ta # PyNone /\ tb # PyNone)
        ELSE ra # PyNone /\ rb # PyNone

\* whenever the call returns, it returns one item for each key, the
\* earliest of the strongest, in the order of the keys, and a second call
\* changes nothing; it raises only over two items of one key that hold a
\* None that decides their comparison
C30_OnePerKeyWhenReturned ==
    /\ places.pc \in {"returned", "returned again"} => places.out = OnePerKey(places.items)
    /\ places.pc = "returned again" => places.again = places.out
    /\ places.pc # "raised again"
    /\ places.pc = "raised" =>
          \E i, j \in 1..Len(places.items) :
              /\ DedupKey(places.items[i]) = DedupKey(places.items[j])
              /\ ~Comparable(places.items[i], places.items[j])

\* three spellings and two ways of writing the phone, one key: the item
\* with 200 reviews is kept, at the place of the first
C30_StrongestKept ==
    /\ places.pc = "returned again"
    /\ Len(places.items) = 3 /\ Len(places.out) = 2
    /\ places.out[1].reviews_count = Num(QInt(200))
    /\ places.items[1].reviews_count = Num(QInt(100))
    /\ places.items[3] = places.out[1]
    /\ DedupKey(places.out[1]) = <<97, 108, 45, 98, 97, 105, 107, 124, 49, 50, 51, 52>>

\* equal pairs under one website: the earlier item is kept
C30_EarliestOnTie ==
    /\ places.pc = "returned"
    /\ Len(places.items) = 2 /\ Len(places.out) = 1
    /\ places.items[1] # places.items[2]
    /\ places.out[1] = places.items[1]
    /\ Domain(places.items[2].website) = <<97, 108, 98, 97, 105, 107, 46, 99, 111, 109>>

\* the keys of the items without a name: the tile, or nothing
C30_TileKeys ==
    /\ places.pc = "returned"
    /\ Len(places.out) = 2
    /\ DedupKey(places.out[1]) = <<120, 124, 50, 52, 46, 55, 49, 52, 44, 52, 54, 46, 54, 55, 53>>
    /\ DedupKey(places.out[2]) = <<120, 124>>
=============================================================================
